---- MODULE Spec2Model ----
(***************************************************************************)
(* Model of the orchestration core of mythril-bot:                         *)
(*   - ProcessManager  (src/src/executor/process-manager.ts, 26-230)       *)
(*   - StreamBuffer    (src/src/executor/process-manager.ts, 602-707)      *)
(*   - VaultMonitor    (src/src/watcher/vault-monitor.ts)                  *)
(*   - diffTasks       (src/src/types.ts, 160-220)                         *)
(* Node runs every handler to completion on one event loop, so each        *)
(* handler (method call, timer callback, child-process event, promise      *)
(* continuation) is one atomic action.                                     *)
(***************************************************************************)
EXTENDS Integers, Sequences, FiniteSets, TLC

\* ------------------------------------------------------------------ bounds
MaxProcs == 2       \* child processes that can be spawned in one run
MaxStops == 1       \* stop() calls that reach the Promise body in one run
MaxOut == 1         \* chunks held in ProcessManager.outputBuffer
MaxChars == 4       \* characters appended to the StreamBuffer in one run
MaxChunk == 2       \* longest chunk passed to one append()
MaxBufferSize == 2  \* options.maxBufferSize (1500 by default, 5 and 10 in the tests)
MaxSBStops == 1     \* StreamBuffer.stop() calls in one run
MaxASCalls == 2     \* ApprovalService calls that read the clock in one run
MaxASWrites == 1    \* task documents others write to ACTIVE.md for approval in one run
MaxAppear == 1      \* files that appear in the watched directories in one run
MaxContent == 5     \* characters of a batch handed to splitContent
MaxMessageLength == 3   \* MAX_MESSAGE_LENGTH (1900 in the code), scaled down
CodeBlockOverhead == 1  \* CODE_BLOCK_OVERHEAD (8 in the code), scaled down
MaxCriteria == 2    \* acceptance criteria of a task handed to diffTasks
MaxLogLines == 2    \* execution-log entries of a task handed to diffTasks
MaxPieces == 2      \* pieces of one batch sent by the DiscordStreamer
MaxBatches == 2     \* sendToDiscord calls in one run

NULL == "null"
Tasks == {"T1", "T2"}
Procs == 1..MaxProcs

VARIABLES
  process,          \* ProcessManager.process: 0 = null, else the child's id
  currentTaskId,    \* ProcessManager.currentTaskId
  startTime,        \* ProcessManager.startTime: 0 = null, else the time read
  outputBuffer,     \* ProcessManager.outputBuffer
  executionTimeout, \* ProcessManager.executionTimeout: 0 = null, else handle
  execTimer,        \* state of the timer created by each successful start
  child,            \* the ChildProcess objects returned by exec
  stops,            \* one record per Promise body entered by stop()
  pmLast            \* the latest ProcessManager handler: which one, its
                    \* result, the events it emitted and what isRunning()
                    \* returned while it emitted them, and for a callback
                    \* the child it belongs to (owner) and the child it
                    \* found tracked (victim)

pmVars == <<process, currentTaskId, startTime, outputBuffer, executionTimeout,
            execTimer, child, stops, pmLast>>

VARIABLES
  buffer,           \* StreamBuffer.buffer: the characters, named by the order of their append
  flushInterval,    \* StreamBuffer.flushInterval: TRUE while the interval timer is set
  isFlushing,       \* StreamBuffer.isFlushing
  pendingFlush,     \* StreamBuffer.pendingFlush: set = FALSE is null
  sinkCalls,        \* the onFlush calls made so far, in call order
  sbStops,          \* one record per StreamBuffer.stop() call
  appended,         \* number of characters appended so far
  startedChars,     \* history: characters appended while the timer was set
  cleared           \* history: characters removed by clear()

sbVars == <<buffer, flushInterval, isFlushing, pendingFlush, sinkCalls, sbStops,
            appended, startedChars, cleared>>

VARIABLES
  activeFile,       \* the file _orchestra/ACTIVE.md: <<>> = missing, else <<content>>
  watching,         \* VaultMonitor.watcher # null
  lastActiveTask,   \* VaultMonitor.lastActiveTask: <<>> = null, else <<task>>
  vmLast            \* what the latest VaultMonitor handler read and emitted

vmVars == <<activeFile, watching, lastActiveTask, vmLast>>

VARIABLES
  watchedFiles,     \* the file task.md of the queue, completed and blocked
                    \* directories: its content (<<>> = missing) and version,
                    \* the number of times it has appeared
  fsEvents,         \* 'add' notifications chokidar has still to deliver, per
                    \* directory
  queuedLog         \* history: the file versions taskQueued was emitted for

vqVars == <<watchedFiles, fsEvents, queuedLog>>

VARIABLES
  completedDir,     \* files written to _orchestra/completed, in order
  asNow,            \* the clock new Date() reads in ApprovalService
  asLast,           \* the latest ApprovalService call: its arguments, its
                    \* result and the files it wrote
  asRun             \* history: the successful rejects since ACTIVE.md was
                    \* last written by somebody else, the retry count that
                    \* document held, whether the first of these rejects
                    \* was given the task as the file held it, and the
                    \* number of such writes

asVars == <<completedDir, asNow, asLast, asRun>>

VARIABLES
  cmd               \* the slash-command handlers in flight: for each its
                    \* position and the task it read from the monitor

cmdVars == <<cmd>>

VARIABLES
  smLast            \* the latest state-machine call: arguments and result

smVars == <<smLast>>

VARIABLES
  ds                \* DiscordStreamer: the sendToDiscord call in progress (its
                    \* pieces, the piece being sent and where the call is
                    \* suspended), the attempts of that call in order, how
                    \* the call's promise settled, and stats.messagesSent

dsVars == <<ds>>

VARIABLES
  bot               \* OadsBot: activeStreamer (0 is null, else the child the
                    \* streamer was created for), the stopStreamer calls that
                    \* are suspended at an await, and the sendSummary calls
                    \* made so far

botVars == <<bot>>

VARIABLES
  dfLast            \* the latest diffTasks call: arguments and results

dfVars == <<dfLast>>

VARIABLES
  spLast            \* the latest splitContent call: arguments and result

spVars == <<spLast>>

\* the variables of the components added to the three above
extVars == <<vqVars, asVars, cmdVars, smVars, dsVars, botVars, dfVars, spVars>>

vars == <<pmVars, sbVars, vmVars, extVars>>

\* ProcessManager fields after construction (lines 28-34)
PMInit ==
  /\ process = 0
  /\ currentTaskId = NULL
  /\ startTime = 0
  /\ outputBuffer = <<>>
  /\ executionTimeout = 0
  /\ execTimer = [p \in Procs |-> "none"]
  /\ child = [p \in Procs |->
               [state |-> "unborn", sigterm |-> FALSE, sigkill |-> FALSE,
                errored |-> FALSE, completed |-> 0]]
  /\ stops = <<>>
  /\ pmLast = [op |-> "none", result |-> "none", emitted |-> <<>>,
               owner |-> 0, victim |-> 0, runningAtEmit |-> FALSE]

\* new Date(): time is counted in children spawned so far
Now == 1 + Cardinality({p \in Procs : child[p].state # "unborn"})

\* id of the next ChildProcess exec would return
NextChild ==
  IF \E p \in Procs : child[p].state = "unborn"
  THEN CHOOSE p \in Procs :
         child[p].state = "unborn" /\ \A q \in Procs : q < p => child[q].state # "unborn"
  ELSE 0

\* clearTimeout(handle) on an execution timer: only a pending timer changes
ClearedExecTimers(h) ==
  IF h # 0 /\ execTimer[h] = "armed"
  THEN [execTimer EXCEPT ![h] = "cleared"]
  ELSE execTimer

\* cleanup(): lines 213-221
cleanup ==
  /\ execTimer' = ClearedExecTimers(executionTimeout)
  /\ executionTimeout' = 0
  /\ process' = 0
  /\ currentTaskId' = NULL
  /\ startTime' = 0

\* StreamBuffer fields after construction (lines 603-607)
NoPending == [set |-> FALSE, text |-> <<>>]

SBInit ==
  /\ buffer = <<>>
  /\ flushInterval = FALSE
  /\ isFlushing = FALSE
  /\ pendingFlush = NoPending
  /\ sinkCalls = <<>>
  /\ sbStops = <<>>
  /\ appended = 0
  /\ startedChars = {}
  /\ cleared = {}

SetOf(list) == {list[i] : i \in DOMAIN list}
IndexIn(list, x) == CHOOSE i \in DOMAIN list : list[i] = x

\* ------------------------------------------------------- task state machine
\* enum TaskStatus, in declaration order
TaskStatus == <<"IN_PROGRESS", "EXECUTING", "PENDING_REVIEW", "COMPLETED", "BLOCKED">>

\* the status strings a metadata table can hold
RawStatusList == <<"IN_PROGRESS", "EXECUTING", "PENDING_REVIEW", "COMPLETED", "BLOCKED",
                   "in progress", "Pending  Review", "executing", "completed",
                   "blocked", "INVALID_STATUS", "UNKNOWN">>
RawStatuses == SetOf(RawStatusList)

\* a status string as its pieces: words, underscores and blanks
Spelling(raw) ==
  CASE raw = "IN_PROGRESS" -> <<"IN", "_", "PROGRESS">>
    [] raw = "EXECUTING" -> <<"EXECUTING">>
    [] raw = "PENDING_REVIEW" -> <<"PENDING", "_", "REVIEW">>
    [] raw = "COMPLETED" -> <<"COMPLETED">>
    [] raw = "BLOCKED" -> <<"BLOCKED">>
    [] raw = "in progress" -> <<"in", " ", "progress">>
    [] raw = "Pending  Review" -> <<"Pending", " ", " ", "Review">>
    [] raw = "executing" -> <<"executing">>
    [] raw = "completed" -> <<"completed">>
    [] raw = "blocked" -> <<"blocked">>
    [] raw = "INVALID_STATUS" -> <<"INVALID", "_", "STATUS">>
    [] raw = "UNKNOWN" -> <<"UNKNOWN">>

\* String.prototype.toUpperCase on one piece
toUpperCase(piece) ==
  CASE piece = "in" -> "IN"
    [] piece = "progress" -> "PROGRESS"
    [] piece = "Pending" -> "PENDING"
    [] piece = "Review" -> "REVIEW"
    [] piece = "executing" -> "EXECUTING"
    [] piece = "completed" -> "COMPLETED"
    [] piece = "blocked" -> "BLOCKED"
    [] OTHER -> piece

\* replace(/\s+/g, '_'): every run of blanks becomes one underscore
RECURSIVE ReplaceBlankRuns(_)
ReplaceBlankRuns(pieces) ==
  IF pieces = <<>> THEN <<>>
  ELSE IF Head(pieces) = " "
  THEN IF Tail(pieces) # <<>> /\ Head(Tail(pieces)) = " "
       THEN ReplaceBlankRuns(Tail(pieces))
       ELSE <<"_">> \o ReplaceBlankRuns(Tail(pieces))
  ELSE <<Head(pieces)>> \o ReplaceBlankRuns(Tail(pieces))

\* parseStatus (part_005 47-53): <<>> is null
parseStatus(statusStr) ==
  LET normalized == ReplaceBlankRuns([i \in DOMAIN Spelling(statusStr) |->
                                        toUpperCase(Spelling(statusStr)[i])])
      hits == {st \in SetOf(TaskStatus) : Spelling(st) = normalized}
  IN IF hits # {} THEN <<CHOOSE st \in hits : TRUE>> ELSE <<>>

\* a table that lets a blocked task be completed directly
validTransitions_blockedCompletes(from) ==
  CASE from = "IN_PROGRESS" -> <<"EXECUTING", "BLOCKED">>
    [] from = "EXECUTING" -> <<"IN_PROGRESS", "PENDING_REVIEW">>
    [] from = "PENDING_REVIEW" -> <<"COMPLETED", "IN_PROGRESS">>
    [] from = "COMPLETED" -> <<>>
    [] from = "BLOCKED" -> <<"IN_PROGRESS", "COMPLETED">>

\* a table in which BLOCKED has no way out
validTransitions_blockedStuck(from) ==
  CASE from = "IN_PROGRESS" -> <<"EXECUTING", "BLOCKED">>
    [] from = "EXECUTING" -> <<"IN_PROGRESS", "PENDING_REVIEW">>
    [] from = "PENDING_REVIEW" -> <<"COMPLETED", "IN_PROGRESS">>
    [] from = "COMPLETED" -> <<>>
    [] from = "BLOCKED" -> <<>>

\* validTransitions (part_005 20-26)
validTransitions(from) ==
  CASE from = "IN_PROGRESS" -> <<"EXECUTING", "BLOCKED">>
    [] from = "EXECUTING" -> <<"IN_PROGRESS", "PENDING_REVIEW">>
    [] from = "PENDING_REVIEW" -> <<"COMPLETED", "IN_PROGRESS">>
    [] from = "COMPLETED" -> <<>>
    [] from = "BLOCKED" -> <<"IN_PROGRESS">>

\* canTransition (part_005 28-31)
canTransition(from, to) ==
  IF from \in SetOf(TaskStatus) THEN to \in SetOf(validTransitions(from)) ELSE FALSE

\* transition (part_005 33-45)
transition(from, to) ==
  IF ~canTransition(from, to)
  THEN [success |-> FALSE, newStatus |-> <<>>, error |-> <<"Invalid transition", from, to>>]
  ELSE [success |-> TRUE, newStatus |-> <<to>>, error |-> <<>>]

\* getValidNextStates (part_005 55-57)
getValidNextStates(current) ==
  IF current \in SetOf(TaskStatus) THEN validTransitions(current) ELSE <<>>

\* ------------------------------------------------- task documents, parser
\* A task document is modelled by the fields the parser extracts from it plus
\* pad, which stands for text no parsed field depends on (blank lines, prose
\* outside the recognised sections).
StatusList == <<"IN_PROGRESS", "PENDING_REVIEW">>
TextList == <<"a", "b">>
LogList == <<"[t1] step">>
IdList == <<"T1", "UNKNOWN">>

\* the lines ApprovalService appends to the execution log, by the time read
\* from the clock
RejectedLines == <<"[t2] REJECTED", "[t3] REJECTED", "[t4] REJECTED", "[t5] REJECTED">>
ApprovedLines == <<"[t2] APPROVED", "[t3] APPROVED", "[t4] APPROVED", "[t5] APPROVED">>
AllLogLines == LogList \o RejectedLines \o ApprovedLines

\* the documents written to ACTIVE.md: no or one acceptance criterion, open
\* or completed, and no or one execution-log entry
Docs == [id : {"T1"},
         status : SetOf(StatusList),
         criteria : {<<>>} \cup {<<c>> : c \in [text : {Head(TextList)}, completed : BOOLEAN]},
         log : {<<>>} \cup {<<l>> : l \in SetOf(LogList)},
         retry : {<<>>},
         pad : {0, 1}]

\* digit of one acceptance criterion / one log line in the digest
CriterionCode(c) == 2 * IndexIn(TextList, c.text) - (IF c.completed THEN 0 ELSE 1)
LogCode(l) == IndexIn(AllLogLines, l)

\* a list of digits 1..base-1 read as a number in the given base
RECURSIVE SeqCode(_, _)
SeqCode(digits, base) ==
  IF digits = <<>> THEN 0
  ELSE Head(digits) + base * SeqCode(Tail(digits), base)

\* computeHash (parser.ts 4-6): an MD5 digest of the whole text.  Modelled as
\* a digest computed from every part of the document; distinct documents of
\* the bounded domain get distinct digests.
computeHash(content) ==
  <<IndexIn(IdList, content.id),
    IndexIn(RawStatusList, content.status),
    SeqCode([i \in DOMAIN content.criteria |-> CriterionCode(content.criteria[i])],
            2 * Len(TextList) + 1),
    SeqCode([i \in DOMAIN content.log |-> LogCode(content.log[i])],
            Len(AllLogLines) + 1),
    IF content.retry = <<>> THEN 0 ELSE content.retry[1] + 1,
    content.pad>>

\* parseTask (parser.ts 111-129)
parseTask(content) ==
  [id |-> content.id,
   metadata |-> [status |-> content.status],
   acceptanceCriteria |-> content.criteria,
   executionLog |-> content.log,
   rawContent |-> content,
   contentHash |-> computeHash(content)]

\* ------------------------------------------------------------- diff engine
\* oldCriteriaMap.get(text) (types.ts 185-191): <<>> when the text is not a
\* key, else the value set last for it
OldCompleted(oldCriteria, text) ==
  LET idx == {i \in 1..Len(oldCriteria) : oldCriteria[i].text = text}
  IN IF idx = {} THEN <<>>
     ELSE <<oldCriteria[CHOOSE i \in idx : \A j \in idx : j <= i].completed>>

\* the loop of types.ts 190-200
RECURSIVE ChangedCriteria(_, _)
ChangedCriteria(oldCriteria, newCriteria) ==
  IF newCriteria = <<>> THEN <<>>
  ELSE LET c == Head(newCriteria)
           old == OldCompleted(oldCriteria, c.text)
           rest == ChangedCriteria(oldCriteria, Tail(newCriteria))
       IN IF old # <<>> /\ old[1] # c.completed
          THEN <<[text |-> c.text, oldCompleted |-> old[1],
                  newCompleted |-> c.completed]>> \o rest
          ELSE rest

\* the loop of types.ts 203-208
RECURSIVE NewLogEntries(_, _)
NewLogEntries(oldLog, newLog) ==
  IF newLog = <<>> THEN <<>>
  ELSE IF Head(newLog) \in SetOf(oldLog)
  THEN NewLogEntries(oldLog, Tail(newLog))
  ELSE <<Head(newLog)>> \o NewLogEntries(oldLog, Tail(newLog))

\* a diffTasks that reports no log entries for a new task
diffTasks_newTaskNoLog(oldTask, newTask) ==
  [isNewTask |-> oldTask = <<>>,
   statusChanged |-> TRUE,
   oldStatus |-> <<>>,
   newStatus |-> <<newTask.metadata.status>>,
   criteriaChanged |-> FALSE,
   changedCriteria |-> <<>>,
   newLogEntries |-> <<>>]

\* diffTasks (types.ts 160-211); oldTask is <<>> for null, oldStatus and
\* newStatus are <<>> when the code leaves them undefined
diffTasks(oldTask, newTask) ==
  IF oldTask = <<>>
  THEN [isNewTask |-> TRUE,
        statusChanged |-> TRUE,
        oldStatus |-> <<>>,
        newStatus |-> <<newTask.metadata.status>>,
        criteriaChanged |-> FALSE,
        changedCriteria |-> <<>>,
        newLogEntries |-> newTask.executionLog]
  ELSE LET old == oldTask[1]
           sc == old.metadata.status # newTask.metadata.status
           cc == ChangedCriteria(old.acceptanceCriteria, newTask.acceptanceCriteria)
       IN [isNewTask |-> FALSE,
           statusChanged |-> sc,
           oldStatus |-> IF sc THEN <<old.metadata.status>> ELSE <<>>,
           newStatus |-> IF sc THEN <<newTask.metadata.status>> ELSE <<>>,
           criteriaChanged |-> cc # <<>>,
           changedCriteria |-> cc,
           newLogEntries |-> NewLogEntries(old.executionLog, newTask.executionLog)]

\* hasMeaningfulChanges (types.ts 213-220)
hasMeaningfulChanges(diff) ==
  \/ diff.isNewTask
  \/ diff.statusChanged
  \/ diff.criteriaChanged
  \/ Len(diff.newLogEntries) > 0

\* ---------------------------------------------------------- ApprovalService
\* the content clearActiveFile writes (file-mover.ts 68-74): a title line
\* without an id and no metadata table, so parseTask yields the defaults
NoneDoc == [id |-> "UNKNOWN", status |-> "UNKNOWN", criteria |-> <<>>, log |-> <<>>,
            retry |-> <<>>, pad |-> 0]

\* the documents handed to the approval workflow: every member of the status
\* set with no, open, completed and mixed acceptance criteria, a lower-case
\* spelling, a string outside the set, and two that hold a retry count
ASCriteria == {<<>>,
               <<[text |-> "a", completed |-> FALSE]>>,
               <<[text |-> "a", completed |-> TRUE]>>,
               <<[text |-> "a", completed |-> TRUE], [text |-> "a", completed |-> FALSE]>>}
ASDocs ==
  [id : {"T1"}, status : SetOf(TaskStatus), criteria : ASCriteria,
   log : {<<"[t1] step">>}, retry : {<<>>}, pad : {0}]
  \cup [id : {"T1"}, status : {"in progress", "INVALID_STATUS"}, criteria : {<<>>},
        log : {<<"[t1] step">>}, retry : {<<>>}, pad : {0}]
  \cup [id : {"T1"}, status : {"PENDING_REVIEW", "INVALID_STATUS"}, criteria : {<<>>},
        log : {<<"[t1] step">>}, retry : {<<1>>}, pad : {0}]

\* the reasons given to reject, as pieces: none, blanks only, and a real one
Reasons == {<<>>, <<" ", " ", " ">>, <<" ", "needs", " ", "tests">>}

\* String.prototype.trim
RECURSIVE trimStart(_)
trimStart(str) ==
  IF str # <<>> /\ Head(str) = " " THEN trimStart(Tail(str)) ELSE str

RECURSIVE trimEnd(_)
trimEnd(str) ==
  IF str # <<>> /\ str[Len(str)] = " " THEN trimEnd(SubSeq(str, 1, Len(str) - 1)) ELSE str

trim(str) == trimEnd(trimStart(str))

\* allCriteriaCompleted (index.ts 162-167)
allCriteriaCompleted(task) ==
  /\ Len(task.acceptanceCriteria) > 0
  /\ \A i \in 1..Len(task.acceptanceCriteria) : task.acceptanceCriteria[i].completed

\* updateTaskStatus (169-175): the value of the Status row is replaced
updateTaskStatus(content, newStatus) == [content EXCEPT !.status = newStatus]

\* addApprovalMetadata (177-200): two rows are added to the metadata table
addApprovalMetadata(content, approver, timestamp) ==
  [doc |-> content, approved |-> timestamp, approvedBy |-> approver]

\* getRetryCount (202-205)
getRetryCount(content) == IF content.retry = <<>> THEN 0 ELSE content.retry[1]

\* updateRetryCount (207-226): the row is rewritten, or added to the table
updateRetryCount(content, count) == [content EXCEPT !.retry = <<count>>]

\* appendToExecutionLog (228-238)
appendToExecutionLog(content, entry) == [content EXCEPT !.log = Append(@, entry)]

\* new Date().toISOString().split('T')[0] (file-mover.ts 34): the day of a
\* time; two successive times fall on one day
datePrefix(time) == (time + 1) \div 2

\* a moveToCompleted that names the file by the task id alone
moveToCompleted_idOnly(taskId, content) ==
  [path |-> <<0, taskId>>, content |-> content]

\* moveToCompleted (file-mover.ts 30-40): the file written, by path and
\* content; the path is made of the date and the task id
moveToCompleted(taskId, content) ==
  [path |-> <<datePrefix(asNow), taskId>>, content |-> content]

\* the result objects of approve and reject
ASResult(op, task, reason, success, message, retryCount, wroteActive, wroteCompleted) ==
  [op |-> op, task |-> <<task>>, reason |-> reason, success |-> success,
   message |-> message, retryCount |-> retryCount,
   wroteActive |-> wroteActive, wroteCompleted |-> wroteCompleted,
   newPath |-> IF success /\ wroteCompleted
               THEN <<moveToCompleted(task.id, task.rawContent).path>> ELSE <<>>]

ASInit ==
  /\ completedDir = <<>>
  /\ asNow = 1
  /\ asLast = [op |-> "none", task |-> <<>>, reason |-> <<>>, success |-> FALSE,
               message |-> <<>>, retryCount |-> <<>>,
               wroteActive |-> FALSE, wroteCompleted |-> FALSE,
               newPath |-> <<>>]
  /\ asRun = [base |-> 0, n |-> 0, fresh |-> FALSE, writes |-> 0]

\* ------------------------------------------ watched directories, commands
\* the directories handleFileAdd tells apart (vault-monitor.ts 98-109)
AddDirs == {"queue", "completed", "blocked"}

\* the documents that appear in the watched directories
QueueDocs == {d \in Docs : d.pad = 0 /\ d.criteria = <<>> /\ d.status = "IN_PROGRESS"}

VQInit ==
  /\ watchedFiles = [dir \in AddDirs |-> [content |-> <<>>, version |-> 0]]
  /\ fsEvents = [dir \in AddDirs |-> 0]
  /\ queuedLog = <<>>

\* the slash commands with a check of isRunning()
Commands == {"start", "approve", "reject"}

\* the text commands (commands.ts) that are suspended between their checks
\* and their call
TextCommands == {"textStart"}

CmdInit ==
  cmd = [c \in Commands \cup TextCommands |->
           [pc |-> "idle", task |-> <<>>, reason |-> <<>>]]

\* DiscordStreamer after construction (process-manager.ts 364-378)
DSInit ==
  ds = [batches |-> 0, pieces |-> 0, idx |-> 0, pc |-> "idle", log |-> <<>>,
        result |-> "none", messagesSent |-> 0]

SMInit ==
  smLast = [op |-> "none", raw |-> "UNKNOWN", from |-> <<>>, to |-> <<>>,
            result |-> <<>>]

\* VaultMonitor fields after construction (vault-monitor.ts 20-21); the
\* active file is written by others, before or after the monitor starts
NoHandler == [kind |-> "none", readOk |-> FALSE, read |-> <<>>, prev |-> <<>>,
              emitted |-> <<>>, repeat |-> FALSE]

VMInit ==
  /\ activeFile = <<>>
  /\ watching = FALSE
  /\ lastActiveTask = <<>>
  /\ vmLast = NoHandler

SplitInit == spLast = [op |-> "none", content |-> <<>>, useCodeBlocks |-> FALSE,
                       chunks |-> <<>>]

DiffInit == dfLast = [op |-> "none", old |-> <<>>, new |-> <<>>, diff |-> <<>>,
                      meaningful |-> FALSE]

\* OadsBot fields after construction (client.ts 262-263)
BotInit == bot = [activeStreamer |-> 0, calls |-> <<>>, summaries |-> <<>>]

Init ==
  /\ PMInit /\ SBInit /\ VMInit /\ VQInit /\ ASInit /\ CmdInit /\ SMInit /\ DSInit
  /\ BotInit
  /\ DiffInit
  /\ SplitInit

\* the record of a handler run
Last(op, result, emitted, owner, victim, runningAtEmit) ==
  [op |-> op, result |-> result, emitted |-> emitted, owner |-> owner,
   victim |-> victim, runningAtEmit |-> runningAtEmit]

\* ------------------------------------------------------------ ProcessManager
StartOutcomes == {"ok", "mkdirThrows", "execThrows"}

\* start(), line 67-69: the guard's throwing branch
startRejected ==
  /\ pmLast' = Last("start", "already running", <<>>, 0, 0, FALSE)
  /\ UNCHANGED <<process, currentTaskId, startTime, outputBuffer,
                 executionTimeout, execTimer, child, stops>>

\* start(), lines 71-134: everything after the guard.  outcome is what the
\* environment does: mkdirSync throws (line 83, outside the try), exec throws
\* (line 94, inside the try, so the catch runs cleanup), or exec returns.
startBody(task, outcome) ==
  /\ outputBuffer' = <<>>
  /\ CASE outcome = "mkdirThrows" ->
            /\ currentTaskId' = task
            /\ startTime' = Now
            /\ pmLast' = Last("start", "mkdir failed", <<>>, 0, 0, FALSE)
            /\ UNCHANGED <<process, executionTimeout, execTimer, child>>
       [] outcome = "execThrows" ->
            /\ cleanup
            /\ pmLast' = Last("start", "spawn failed", <<>>, 0, 0, FALSE)
            /\ UNCHANGED child
       [] outcome = "ok" ->
            /\ NextChild # 0
            /\ currentTaskId' = task
            /\ startTime' = Now
            /\ process' = NextChild
            /\ child' = [child EXCEPT ![NextChild].state = "running"]
            /\ executionTimeout' = NextChild
            /\ execTimer' = [execTimer EXCEPT ![NextChild] = "armed"]
            /\ pmLast' = Last("start", "ok", <<"started">>, 0, 0, TRUE)
  /\ UNCHANGED stops

\* a start() that has lost its 'already running' guard
start_unguarded(task, outcome) ==
  startBody(task, outcome)

\* start(task): lines 66-135
start(task, outcome) ==
  IF process # 0 THEN startRejected ELSE startBody(task, outcome)

\* stop(reason), lines 180-211, as called by a command or by the timeout
\* a stop that arms its force-kill timer although nothing is tracked
stopCall_armsAnyway(reason) ==
  /\ Len(stops) < MaxStops
  /\ stops' = Append(stops, [target |-> process, reason |-> reason,
                              timer |-> "armed", listening |-> process # 0,
                              promise |-> "pending", stopped |-> 0])
  /\ child' = IF process = 0 THEN child ELSE [child EXCEPT ![process].sigterm = TRUE]

\* the body of stop(reason), lines 180-210: the early return, or the
\* force-kill timer, the once('close') listener and SIGTERM
stopCall(reason) ==
  IF process = 0
  THEN UNCHANGED <<stops, child>>
  ELSE /\ Len(stops) < MaxStops
       /\ stops' = Append(stops, [target |-> process, reason |-> reason,
                                   timer |-> "armed", listening |-> TRUE,
                                   promise |-> "pending", stopped |-> 0])
       /\ child' = [child EXCEPT ![process].sigterm = TRUE]

\* stop(reason) called from outside
stop(reason) ==
  /\ stopCall(reason)
  /\ pmLast' = Last("stop", IF process = 0 THEN "noop" ELSE "pending", <<>>, 0, 0, FALSE)
  /\ UNCHANGED <<process, currentTaskId, startTime, outputBuffer,
                 executionTimeout, execTimer>>

\* the callback of setupExecutionTimeout, lines 174-177, for the timer that
\* the start of child p armed
ExecTimeoutFire(p) ==
  /\ execTimer[p] = "armed"
  /\ execTimer' = [execTimer EXCEPT ![p] = "fired"]
  /\ stopCall("Execution timeout reached")
  /\ pmLast' = Last("execTimeout", IF process = 0 THEN "noop" ELSE "pending",
                    <<>>, p, process, FALSE)
  /\ UNCHANGED <<process, currentTaskId, startTime, outputBuffer,
                 executionTimeout>>

\* a force-kill callback that kills and resets but reports nothing
ForceKillFire_silent(s) ==
  /\ s \in 1..Len(stops)
  /\ stops[s].timer = "armed"
  /\ child' = IF process # 0
              THEN [child EXCEPT ![process].sigkill = TRUE]
              ELSE child
  /\ cleanup
  /\ stops' = [stops EXCEPT ![s].timer = "fired"]
  /\ pmLast' = Last("forceKill", "-", <<>>, stops[s].target, process, FALSE)
  /\ UNCHANGED outputBuffer

\* the forceKillTimeout callback of the s-th stop, lines 189-197
ForceKillFire(s) ==
  /\ s \in 1..Len(stops)
  /\ stops[s].timer = "armed"
  /\ child' = IF process # 0
              THEN [child EXCEPT ![process].sigkill = TRUE]
              ELSE child
  /\ cleanup
  /\ stops' = [stops EXCEPT ![s].timer = "fired",
                            ![s].promise = "resolved",
                            ![s].stopped = @ + 1]
  /\ pmLast' = Last("forceKill", "-", <<"stopped">>, stops[s].target, process, FALSE)
  /\ UNCHANGED outputBuffer

\* exit codes a 'close' event can carry; -1 stands for null (killed by signal)
ExitCodes(p) == {0, 1} \cup (IF child[p].sigterm \/ child[p].sigkill THEN {-1} ELSE {})

\* a once('close') listener that leaves the force-kill timer armed
StopsAfterClose_keepsTimer(p) ==
  [s \in 1..Len(stops) |->
     IF stops[s].target = p /\ stops[s].listening
     THEN [stops[s] EXCEPT !.listening = FALSE,
                           !.promise = "resolved",
                           !.stopped = @ + 1]
     ELSE stops[s]]

\* the once('close') listener of stop(), lines 200-205, run for every stop
\* that registered it on child p
StopsAfterClose(p) ==
  [s \in 1..Len(stops) |->
     IF stops[s].target = p /\ stops[s].listening
     THEN [stops[s] EXCEPT !.timer = IF @ = "armed" THEN "cleared" ELSE @,
                           !.listening = FALSE,
                           !.promise = "resolved",
                           !.stopped = @ + 1]
     ELSE stops[s]]

ListeningStops(p) == {s \in 1..Len(stops) : stops[s].target = p /\ stops[s].listening}

\* a 'close' listener that emits completed before it resets the fields
Close_emitsFirst(p, code) ==
  /\ child[p].state = "running"
  /\ code \in ExitCodes(p)
  /\ child' = [child EXCEPT ![p].state = "closed", ![p].completed = @ + 1]
  /\ cleanup
  /\ stops' = StopsAfterClose(p)
  /\ pmLast' = Last("close", code,
                    <<"completed">> \o [i \in 1..Cardinality(ListeningStops(p)) |-> "stopped"],
                    p, process, process # 0)
  /\ UNCHANGED outputBuffer

\* child p emits 'close': the listener of setupProcessHandlers (160-164)
\* runs first, then the once('close') listeners in registration order
Close(p, code) ==
  /\ child[p].state = "running"
  /\ code \in ExitCodes(p)
  /\ child' = [child EXCEPT ![p].state = "closed", ![p].completed = @ + 1]
  /\ cleanup
  /\ stops' = StopsAfterClose(p)
  /\ pmLast' = Last("close", code,
                    <<"completed">> \o [i \in 1..Cardinality(ListeningStops(p)) |-> "stopped"],
                    p, process, FALSE)
  /\ UNCHANGED outputBuffer

\* child p emits 'error': lines 166-170
ProcError(p) ==
  /\ child[p].state = "running"
  /\ child' = [child EXCEPT ![p].errored = TRUE]
  /\ cleanup
  /\ pmLast' = Last("error", "-", <<"error">>, p, process, FALSE)
  /\ UNCHANGED <<outputBuffer, stops>>

\* child p writes to stdout or stderr: lines 112-124
ProcOutput(p, stream) ==
  /\ child[p].state = "running"
  /\ Len(outputBuffer) < MaxOut
  /\ outputBuffer' = Append(outputBuffer, stream)
  /\ pmLast' = Last("output", "-", <<"output">>, 0, 0, process # 0)
  /\ UNCHANGED <<process, currentTaskId, startTime, executionTimeout,
                 execTimer, child, stops>>

PMStart == (\E t \in Tasks, o \in StartOutcomes : start(t, o)) /\ UNCHANGED <<sbVars, vmVars, extVars>>
PMStop == stop("manual") /\ UNCHANGED <<sbVars, vmVars, extVars>>
PMExecTimeout == (\E p \in Procs : ExecTimeoutFire(p)) /\ UNCHANGED <<sbVars, vmVars, extVars>>
PMForceKill == (\E s \in 1..MaxStops : ForceKillFire(s)) /\ UNCHANGED <<sbVars, vmVars, extVars>>
PMClose == (\E p \in Procs, code \in {-1, 0, 1} : Close(p, code)) /\ UNCHANGED <<sbVars, vmVars, extVars>>
PMError == (\E p \in Procs : ProcError(p)) /\ UNCHANGED <<sbVars, vmVars, extVars>>
\* the stderr listener (119-124) differs from the stdout one only in the
\* '[stderr] ' it puts before the text, so one kind of chunk is drawn
PMOutput == (\E p \in Procs, st \in {"data"} : ProcOutput(p, st)) /\ UNCHANGED <<sbVars, vmVars, extVars>>

PMNext ==
  \/ PMStart
  \/ PMStop
  \/ PMExecTimeout
  \/ PMForceKill
  \/ PMClose
  \/ PMError
  \/ PMOutput

SpecPM == Init /\ [][PMNext]_vars

\* ------------------------------------------------ claims on ProcessManager

\* C1: a start() issued while a process is tracked fails with the 'already
\* running' error, emits nothing and leaves the tracked process,
\* currentTaskId, startTime, the output buffer, the execution timeout and its
\* timer, every child and every pending stop unchanged.
C1_StartWhileRunningRejected ==
  [][(process # 0 /\ pmLast'.op = "start") =>
       /\ pmLast'.result = "already running"
       /\ pmLast'.emitted = <<>>
       /\ UNCHANGED <<process, currentTaskId, startTime, outputBuffer,
                      executionTimeout, execTimer, child, stops>>]_vars

\* a start() has just been rejected while a child is tracked, its task and
\* start time are recorded and its execution timeout is still pending
C1_Witness ==
  /\ pmLast.op = "start"
  /\ pmLast.result = "already running"
  /\ process # 0
  /\ currentTaskId # NULL
  /\ startTime # 0
  /\ executionTimeout = process
  /\ execTimer[process] = "armed"

\* C2: every stop() that found a running process emits stopped exactly once
\* in total: never more than once, and exactly once by the time the stopped
\* child has closed; its promise is then resolved.
C2_ExactlyOneStoppedPerStop ==
  \A s \in 1..Len(stops) :
    /\ stops[s].stopped <= 1
    /\ child[stops[s].target].state = "closed" =>
         (stops[s].stopped = 1 /\ stops[s].promise = "resolved")

\* C3: process is null iff currentTaskId and startTime are null, and the
\* execution-timeout handle is non-null only while a process is tracked.
C3_FieldsResetTogether ==
  /\ (process = 0) <=> (currentTaskId = NULL /\ startTime = 0)
  /\ executionTimeout # 0 => process # 0

\* C4: a timer armed for one child never signals or resets another child:
\* whenever a timer callback found a tracked process, it was the process the
\* timer was armed for.
C4_NoTimerHitsLaterProcess ==
  (pmLast.op \in {"execTimeout", "forceKill"} /\ pmLast.victim # 0) =>
    pmLast.victim = pmLast.owner

\* The handlers that start, stop and end a subprocess, with timers that
\* fire: a pending force-kill timer eventually runs its callback.  The
\* stdout and stderr handlers (112-124) only append to outputBuffer and are
\* left out.
PMFairNext ==
  \/ PMStart
  \/ PMStop
  \/ PMExecTimeout
  \/ PMForceKill
  \/ PMClose
  \/ PMError

SpecPMFair == Init /\ [][PMFairNext]_vars /\ WF_vars(PMForceKill)

TimeoutReason == "Execution timeout reached"

\* the execution timeout has invoked the s-th stop and its stopped event is
\* still to come
TimeoutStopPending(s) ==
  s <= Len(stops) /\ stops[s].reason = TimeoutReason /\ stops[s].stopped = 0

\* stopped has been emitted for the s-th stop and isRunning() is false
TimeoutStopDone(s) ==
  s <= Len(stops) /\ stops[s].stopped >= 1 /\ process = 0

\* C18: an execution timeout that elapses while its subprocess is tracked
\* invokes stop with the timeout reason, and with timers firing a stopped
\* event is then eventually emitted and isRunning() becomes false; a timeout
\* stays pending only while its own subprocess is tracked, so after the
\* subprocess terminated it never triggers a stop.
C18_TimeoutStopsTrackedProcess ==
  /\ [](\A p \in Procs : execTimer[p] = "armed" =>
                            (process = p /\ child[p].state = "running"))
  /\ [](pmLast.op = "execTimeout" =>
          /\ pmLast.victim = pmLast.owner
          /\ pmLast.result = "pending"
          /\ stops[Len(stops)].reason = TimeoutReason
          /\ stops[Len(stops)].target = pmLast.owner)
  /\ \A s \in 1..MaxStops : TimeoutStopPending(s) ~> TimeoutStopDone(s)

\* the stop invoked by the execution timeout has had its stopped event
\* emitted by the force-kill timer and nothing is tracked
C18_Witness ==
  /\ stops # <<>>
  /\ stops[1].reason = TimeoutReason
  /\ stops[1].stopped = 1
  /\ stops[1].timer = "fired"
  /\ execTimer[stops[1].target] = "fired"
  /\ process = 0

\* C19: when a tracked subprocess exits, exactly one completed event is
\* emitted for it, carrying the exit code of the close event (null, written
\* -1, only if a signal was sent), and isRunning() is already false when the
\* event is emitted; no child has completed emitted for it before it closes
\* or more than once.
C19_OneCompletedAfterReset ==
  /\ \A p \in Procs : child[p].completed = (IF child[p].state = "closed" THEN 1 ELSE 0)
  /\ (pmLast.op = "close" /\ pmLast.victim = pmLast.owner) =>
       /\ Cardinality({i \in DOMAIN pmLast.emitted : pmLast.emitted[i] = "completed"}) = 1
       /\ pmLast.result \in ExitCodes(pmLast.owner)
       /\ (pmLast.result = -1 => (child[pmLast.owner].sigterm \/ child[pmLast.owner].sigkill))
       /\ ~pmLast.runningAtEmit
       /\ process = 0
  /\ pmLast.op # "close" => \A i \in DOMAIN pmLast.emitted : pmLast.emitted[i] # "completed"

\* a tracked child that no signal was sent to has just exited with code 1
C19_Witness ==
  /\ pmLast.op = "close"
  /\ pmLast.victim = pmLast.owner
  /\ pmLast.result = 1
  /\ ~child[pmLast.owner].sigterm
  /\ ~child[pmLast.owner].sigkill
  /\ pmLast.emitted = <<"completed">>

\* -------------------------------------------------------------- StreamBuffer
Range(f) == {f[i] : i \in DOMAIN f}

\* onFlush calls whose promise has not settled
InFlight == {i \in 1..Len(sinkCalls) : ~sinkCalls[i].settled}

\* characters of the onFlush calls that have settled
SettledChars(calls) ==
  UNION {Range(calls[i].content) : i \in {j \in 1..Len(calls) : calls[j].settled}}

\* a flush() that calls the sink although a delivery is in flight
flush_noQueue(buf, flushing, pend, calls, awaiters) ==
  IF Len(buf) = 0
  THEN /\ buffer' = buf
       /\ isFlushing' = flushing
       /\ pendingFlush' = pend
       /\ sinkCalls' = calls
  ELSE /\ isFlushing' = TRUE
       /\ buffer' = <<>>
       /\ pendingFlush' = pend
       /\ sinkCalls' = Append(calls, [content |-> buf, settled |-> FALSE, failed |-> FALSE,
                                      awaitedBy |-> awaiters])

\* a flush() that queues the new content in front of the queued content
flush_prepend(buf, flushing, pend, calls, awaiters) ==
  IF Len(buf) = 0
  THEN /\ buffer' = buf
       /\ isFlushing' = flushing
       /\ pendingFlush' = pend
       /\ sinkCalls' = calls
  ELSE IF flushing
  THEN /\ pendingFlush' = [set |-> TRUE, text |-> buf \o pend.text]
       /\ buffer' = <<>>
       /\ isFlushing' = flushing
       /\ sinkCalls' = calls
  ELSE /\ isFlushing' = TRUE
       /\ buffer' = <<>>
       /\ pendingFlush' = pend
       /\ sinkCalls' = Append(calls, [content |-> buf, settled |-> FALSE, failed |-> FALSE,
                                      awaitedBy |-> awaiters])

\* flush(), lines 655-670: the part that runs before the await.  buf,
\* flushing, pend and calls are the fields as the caller left them; awaiters
\* are the stop() promises that resolve when this flush() completes.
flush(buf, flushing, pend, calls, awaiters) ==
  IF Len(buf) = 0
  THEN /\ buffer' = buf
       /\ isFlushing' = flushing
       /\ pendingFlush' = pend
       /\ sinkCalls' = calls
  ELSE IF flushing
  THEN /\ pendingFlush' = [set |-> TRUE, text |-> pend.text \o buf]
       /\ buffer' = <<>>
       /\ isFlushing' = flushing
       /\ sinkCalls' = calls
  ELSE /\ isFlushing' = TRUE
       /\ buffer' = <<>>
       /\ pendingFlush' = pend
       /\ sinkCalls' = Append(calls, [content |-> buf, settled |-> FALSE, failed |-> FALSE,
                                      awaitedBy |-> awaiters])

\* a stop() promise resolves: record what held at that moment
Resolved(st, calls, timer) ==
  [st EXCEPT !.resolved = TRUE,
             !.timerAtResolve = timer,
             !.missingAtResolve = ((1..st.before) \ cleared) \ SettledChars(calls)]

\* start(): lines 619-625
SBStart ==
  /\ ~flushInterval
  /\ flushInterval' = TRUE
  /\ UNCHANGED <<buffer, isFlushing, pendingFlush, sinkCalls, sbStops,
                 appended, startedChars, cleared>>
  /\ UNCHANGED <<pmVars, vmVars, extVars>>

\* stop(): lines 630-638.  The awaited flush() returns at once when the
\* buffer is empty or a delivery is in flight.
SBStop ==
  /\ Len(sbStops) < MaxSBStops
  /\ flushInterval' = FALSE
  /\ flush(buffer, isFlushing, pendingFlush, sinkCalls, {Len(sbStops) + 1})
  /\ LET st == [before |-> appended, resolved |-> FALSE,
                timerAtResolve |-> FALSE, missingAtResolve |-> {}]
     IN sbStops' = Append(sbStops,
                     IF Len(buffer) = 0 \/ isFlushing
                     THEN Resolved(st, sinkCalls, FALSE)
                     ELSE st)
  /\ UNCHANGED <<appended, startedChars, cleared>>
  /\ UNCHANGED <<pmVars, vmVars, extVars>>

\* an append that flushes only when the threshold is exceeded
SBAppend_strictlyAbove(k) ==
  /\ appended + k <= MaxChars
  /\ appended' = appended + k
  /\ LET chunk == [i \in 1..k |-> appended + i]
         buf == buffer \o chunk
     IN /\ startedChars' = IF flushInterval
                           THEN startedChars \cup Range(chunk)
                           ELSE startedChars
        /\ IF Len(buf) > MaxBufferSize
           THEN flush(buf, isFlushing, pendingFlush, sinkCalls, {})
           ELSE /\ buffer' = buf
                /\ UNCHANGED <<isFlushing, pendingFlush, sinkCalls>>
  /\ UNCHANGED <<flushInterval, sbStops, cleared>>
  /\ UNCHANGED <<pmVars, vmVars, extVars>>

\* append(chunk): lines 643-650; the chunk has k characters
SBAppend(k) ==
  /\ appended + k <= MaxChars
  /\ appended' = appended + k
  /\ LET chunk == [i \in 1..k |-> appended + i]
         buf == buffer \o chunk
     IN /\ startedChars' = IF flushInterval
                           THEN startedChars \cup Range(chunk)
                           ELSE startedChars
        /\ IF Len(buf) >= MaxBufferSize
           THEN flush(buf, isFlushing, pendingFlush, sinkCalls, {})
           ELSE /\ buffer' = buf
                /\ UNCHANGED <<isFlushing, pendingFlush, sinkCalls>>
  /\ UNCHANGED <<flushInterval, sbStops, cleared>>
  /\ UNCHANGED <<pmVars, vmVars, extVars>>

\* the setInterval callback: lines 622-624
SBTick ==
  /\ flushInterval
  /\ flush(buffer, isFlushing, pendingFlush, sinkCalls, {})
  /\ UNCHANGED <<flushInterval, sbStops, appended, startedChars, cleared>>
  /\ UNCHANGED <<pmVars, vmVars, extVars>>

\* an onFlush failure after which the in-flight flag stays set
onFlushSettles_staysFlushing(i, failed) ==
  /\ i \in InFlight
  /\ LET calls == [sinkCalls EXCEPT ![i].settled = TRUE, ![i].failed = failed]
     IN IF pendingFlush.set /\ ~failed
        THEN /\ flush(pendingFlush.text, FALSE, NoPending, calls,
                      sinkCalls[i].awaitedBy)
             /\ UNCHANGED sbStops
        ELSE /\ isFlushing' = failed
             /\ sinkCalls' = calls
             /\ sbStops' = [s \in 1..Len(sbStops) |->
                              IF s \in sinkCalls[i].awaitedBy
                              THEN Resolved(sbStops[s], calls, flushInterval)
                              ELSE sbStops[s]]
             /\ UNCHANGED <<buffer, pendingFlush>>
  /\ UNCHANGED <<flushInterval, appended, startedChars, cleared>>
  /\ UNCHANGED <<pmVars, vmVars, extVars>>

\* the i-th onFlush call settles, resolved or failed, and flush() resumes
\* after its await: lines 671-683.  The catch only logs, so both ways go
\* through the finally block.  An onFlush that throws before it returns a
\* promise is a failure that settles before any other handler runs.
onFlushSettles(i, failed) ==
  /\ i \in InFlight
  /\ LET calls == [sinkCalls EXCEPT ![i].settled = TRUE, ![i].failed = failed]
     IN IF pendingFlush.set
        THEN /\ flush(pendingFlush.text, FALSE, NoPending, calls,
                      sinkCalls[i].awaitedBy)
             /\ UNCHANGED sbStops
        ELSE /\ isFlushing' = FALSE
             /\ sinkCalls' = calls
             /\ sbStops' = [s \in 1..Len(sbStops) |->
                              IF s \in sinkCalls[i].awaitedBy
                              THEN Resolved(sbStops[s], calls, flushInterval)
                              ELSE sbStops[s]]
             /\ UNCHANGED <<buffer, pendingFlush>>
  /\ UNCHANGED <<flushInterval, appended, startedChars, cleared>>
  /\ UNCHANGED <<pmVars, vmVars, extVars>>

\* the i-th onFlush call resolves
SBSettle(i) == onFlushSettles(i, FALSE)

\* the i-th onFlush call throws or rejects
SBReject(i) == onFlushSettles(i, TRUE)

\* clear(): lines 689-692
SBClear ==
  /\ Len(buffer) > 0 \/ pendingFlush.set
  /\ buffer' = <<>>
  /\ pendingFlush' = NoPending
  /\ cleared' = cleared \cup Range(buffer) \cup Range(pendingFlush.text)
  /\ UNCHANGED <<flushInterval, isFlushing, sinkCalls, sbStops, appended,
                 startedChars>>
  /\ UNCHANGED <<pmVars, vmVars, extVars>>

SBAppendAny == \E k \in 1..MaxChunk : SBAppend(k)
SBSettleAny == \E i \in 1..MaxChars : SBSettle(i)

SBNext ==
  \/ SBStart
  \/ SBStop
  \/ SBAppendAny
  \/ SBTick
  \/ SBSettleAny
  \/ SBClear

SpecSB == Init /\ [][SBNext]_vars

\* -------------------------------------------------- claims on StreamBuffer
RECURSIVE Flatten(_)
Flatten(calls) ==
  IF Len(calls) = 0 THEN <<>> ELSE Head(calls).content \o Flatten(Tail(calls))

\* the characters passed to the sink, in the order they were passed
Delivered == Flatten(sinkCalls)

\* C5: at most one onFlush call is unsettled at any time, and while one is
\* unsettled the buffer is in its flushing state, in which flush() queues.
C5_OneDeliveryInFlight ==
  /\ Cardinality(InFlight) <= 1
  /\ InFlight # {} => isFlushing

\* a flush was requested during a delivery and its content sits in the queue
C5_Witness ==
  /\ InFlight # {}
  /\ pendingFlush.set
  /\ Len(pendingFlush.text) > 0

\* C6: no appended output is lost: every character appended to a started
\* buffer and not removed by clear() has been passed to the sink or is still
\* held in the buffer or in the pending queue, from where a later flush
\* delivers it.
C6_NoOutputLost ==
  \A c \in startedChars \ cleared :
    c \in Range(buffer) \cup Range(pendingFlush.text) \cup Range(Delivered)

\* C7: the characters reach the sink in append order, none of them twice.
C7_DeliveredInAppendOrder ==
  \A k \in 1..(Len(Delivered) - 1) : Delivered[k] < Delivered[k + 1]

\* a batch that was queued during a delivery has been passed to the sink
\* after the batch it waited for
C7_Witness ==
  /\ Len(sinkCalls) >= 2
  /\ sinkCalls[1].settled
  /\ Len(Delivered) >= 3

\* C8: when a stop() promise resolves the timer is cancelled and every
\* character appended before that stop() (and not cleared) is in an onFlush
\* call that has settled.
C8_StopResolvesAfterDelivery ==
  \A s \in 1..Len(sbStops) :
    sbStops[s].resolved =>
      /\ ~sbStops[s].timerAtResolve
      /\ sbStops[s].missingAtResolve = {}

\* C20: an append that leaves the accumulated length below maxBufferSize
\* makes no sink call and keeps the content in the buffer for the timer; an
\* append that brings the accumulated length to maxBufferSize or more while
\* no delivery is in flight calls the sink in the same step with the whole
\* accumulated content and leaves the buffer empty.
C20_AppendFlushesAtThreshold ==
  [][appended' # appended =>
       LET buf == buffer \o [i \in 1..(appended' - appended) |-> appended + i]
       IN IF Len(buf) < MaxBufferSize
          THEN sinkCalls' = sinkCalls /\ buffer' = buf
          ELSE ~isFlushing =>
                 /\ sinkCalls' = Append(sinkCalls, [content |-> buf, settled |-> FALSE, failed |-> FALSE,
                                                    awaitedBy |-> {}])
                 /\ buffer' = <<>>]_vars

\* with no timer and no stop() so far, a first append stayed in the buffer
\* and a second one, reaching the threshold, passed both to the sink
C20_Witness ==
  /\ ~flushInterval
  /\ sbStops = <<>>
  /\ cleared = {}
  /\ Len(sinkCalls) = 1
  /\ sinkCalls[1].content = [i \in 1..MaxBufferSize |-> i]
  /\ buffer = <<>>
  /\ appended = MaxBufferSize


\* C21: stop() makes exactly one sink call if the buffer is non-empty when it
\* is called and no sink call if it is empty; a timer tick on an empty buffer
\* makes no sink call either.
C21_StopFlushesOnce ==
  [][/\ Len(sbStops') = Len(sbStops) + 1 =>
          IF Len(buffer) > 0
          THEN /\ Len(sinkCalls') = Len(sinkCalls) + 1
               /\ sinkCalls'[Len(sinkCalls')].content = buffer
          ELSE sinkCalls' = sinkCalls
     /\ (SBTick /\ Len(buffer) = 0) => sinkCalls' = sinkCalls]_vars

\* -------------------------------------------------------------- VaultMonitor
Event(name, task, diff) == [name |-> name, task |-> task, diff |-> diff]

\* somebody (the user, the subprocess, the approval service) writes ACTIVE.md
WriteActive(d) ==
  /\ activeFile # <<d>>
  /\ activeFile' = <<d>>
  /\ UNCHANGED <<watching, lastActiveTask, vmLast>>

\* a start() that activates the file it reads whether or not a task is stored
VMStartWith_alwaysActivates(readOk) ==
  /\ ~watching
  /\ watching' = TRUE
  /\ IF activeFile = <<>> \/ ~readOk
     THEN /\ vmLast' = [kind |-> "start", readOk |-> FALSE, read |-> <<>>,
                        prev |-> lastActiveTask,
                        emitted |-> IF activeFile = <<>> THEN <<>>
                                    ELSE <<Event("error", <<>>, <<>>)>>,
                        repeat |-> FALSE]
          /\ UNCHANGED lastActiveTask
     ELSE LET task == parseTask(activeFile[1])
          IN /\ lastActiveTask' = <<task>>
             /\ vmLast' = [kind |-> "start", readOk |-> TRUE, read |-> activeFile,
                           prev |-> lastActiveTask,
                           emitted |-> <<Event("taskActivated", <<task>>, <<>>)>>,
                           repeat |-> FALSE]
  /\ UNCHANGED activeFile

\* start(): checkActiveFile (vault-monitor.ts 74-88), then the watcher is
\* created (36-65).  readOk = FALSE: readFileSync throws.
VMStartWith(readOk) ==
  /\ ~watching
  /\ watching' = TRUE
  /\ IF activeFile = <<>>
     THEN /\ vmLast' = [kind |-> "start", readOk |-> FALSE, read |-> <<>>,
                        prev |-> lastActiveTask, emitted |-> <<>>, repeat |-> FALSE]
          /\ UNCHANGED lastActiveTask
     ELSE IF ~readOk
     THEN /\ vmLast' = [kind |-> "start", readOk |-> FALSE, read |-> <<>>,
                        prev |-> lastActiveTask,
                        emitted |-> <<Event("error", <<>>, <<>>)>>, repeat |-> FALSE]
          /\ UNCHANGED lastActiveTask
     ELSE LET task == parseTask(activeFile[1])
          IN IF lastActiveTask = <<>>
             THEN /\ lastActiveTask' = <<task>>
                  /\ vmLast' = [kind |-> "start", readOk |-> TRUE, read |-> activeFile,
                                prev |-> lastActiveTask,
                                emitted |-> <<Event("taskActivated", <<task>>, <<>>)>>,
                                repeat |-> FALSE]
             ELSE /\ vmLast' = [kind |-> "start", readOk |-> TRUE, read |-> activeFile,
                                prev |-> lastActiveTask, emitted |-> <<>>,
                                repeat |-> FALSE]
                  /\ UNCHANGED lastActiveTask
  /\ UNCHANGED activeFile

\* a stop() that also forgets the task it had stored
VMStopWatching_forgetsTask ==
  /\ watching
  /\ watching' = FALSE
  /\ lastActiveTask' = <<>>
  /\ UNCHANGED <<activeFile, vmLast>>

\* stop() (67-72): the watcher is closed; lastActiveTask is kept
VMStopWatching ==
  /\ watching
  /\ watching' = FALSE
  /\ UNCHANGED <<activeFile, lastActiveTask, vmLast>>

\* a handler that replaces lastActiveTask only when it emits
handleActiveChange_keepsStale(readOk) ==
  /\ watching
  /\ IF activeFile = <<>> \/ ~readOk
     THEN /\ vmLast' = [kind |-> "change", readOk |-> FALSE, read |-> <<>>,
                        prev |-> lastActiveTask,
                        emitted |-> <<Event("error", <<>>, <<>>)>>, repeat |-> FALSE]
          /\ UNCHANGED lastActiveTask
     ELSE LET newTask == parseTask(activeFile[1])
              diff == diffTasks(lastActiveTask, newTask)
              rec(em) == [kind |-> "change", readOk |-> TRUE, read |-> activeFile,
                          prev |-> lastActiveTask, emitted |-> em,
                          repeat |-> (vmLast.kind = "change" /\ vmLast.read = activeFile)]
          IN IF lastActiveTask # <<>>
                /\ lastActiveTask[1].contentHash = newTask.contentHash
             THEN /\ vmLast' = rec(<<>>)
                  /\ UNCHANGED lastActiveTask
             ELSE IF hasMeaningfulChanges(diff)
             THEN /\ vmLast' = rec(IF diff.isNewTask
                                   THEN <<Event("taskActivated", <<newTask>>, <<>>)>>
                                   ELSE <<Event("taskUpdated", <<newTask>>, <<diff>>)>>)
                  /\ lastActiveTask' = <<newTask>>
             ELSE /\ vmLast' = rec(<<>>)
                  /\ UNCHANGED lastActiveTask
  /\ UNCHANGED <<activeFile, watching>>

\* a handler without the hash guard that reports every change of a known task
handleActiveChange_noDedupe(readOk) ==
  /\ watching
  /\ IF activeFile = <<>> \/ ~readOk
     THEN /\ vmLast' = [kind |-> "change", readOk |-> FALSE, read |-> <<>>,
                        prev |-> lastActiveTask,
                        emitted |-> <<Event("error", <<>>, <<>>)>>, repeat |-> FALSE]
          /\ UNCHANGED lastActiveTask
     ELSE LET newTask == parseTask(activeFile[1])
              diff == diffTasks(lastActiveTask, newTask)
              rec(em) == [kind |-> "change", readOk |-> TRUE, read |-> activeFile,
                          prev |-> lastActiveTask, emitted |-> em,
                          repeat |-> (vmLast.kind = "change" /\ vmLast.read = activeFile)]
          IN /\ vmLast' = rec(IF diff.isNewTask
                              THEN <<Event("taskActivated", <<newTask>>, <<>>)>>
                              ELSE <<Event("taskUpdated", <<newTask>>, <<diff>>)>>)
             /\ lastActiveTask' = <<newTask>>
  /\ UNCHANGED <<activeFile, watching>>

\* the watcher's 'change' event for ACTIVE.md: handleFileChange (90-96) and
\* handleActiveChange (111-135).  The handler reads the file as it is now;
\* readOk = FALSE: readFileSync throws.
handleActiveChange(readOk) ==
  /\ watching
  /\ IF activeFile = <<>> \/ ~readOk
     THEN /\ vmLast' = [kind |-> "change", readOk |-> FALSE, read |-> <<>>,
                        prev |-> lastActiveTask,
                        emitted |-> <<Event("error", <<>>, <<>>)>>, repeat |-> FALSE]
          /\ UNCHANGED lastActiveTask
     ELSE LET newTask == parseTask(activeFile[1])
              diff == diffTasks(lastActiveTask, newTask)
              rec(em) == [kind |-> "change", readOk |-> TRUE, read |-> activeFile,
                          prev |-> lastActiveTask, emitted |-> em,
                          repeat |-> (vmLast.kind = "change" /\ vmLast.read = activeFile)]
          IN IF lastActiveTask # <<>>
                /\ lastActiveTask[1].contentHash = newTask.contentHash
             THEN /\ vmLast' = rec(<<>>)
                  /\ UNCHANGED lastActiveTask
             ELSE /\ vmLast' = rec(IF hasMeaningfulChanges(diff)
                                   THEN IF diff.isNewTask
                                        THEN <<Event("taskActivated", <<newTask>>, <<>>)>>
                                        ELSE <<Event("taskUpdated", <<newTask>>, <<diff>>)>>
                                   ELSE <<>>)
                  /\ lastActiveTask' = <<newTask>>
  /\ UNCHANGED <<activeFile, watching>>

VMWrite == (\E d \in Docs : WriteActive(d)) /\ UNCHANGED <<pmVars, sbVars, extVars>>
VMStart == (\E ok \in BOOLEAN : VMStartWith(ok)) /\ UNCHANGED <<pmVars, sbVars, extVars>>
VMStop == VMStopWatching /\ UNCHANGED <<pmVars, sbVars, extVars>>
VMActiveChange == (\E ok \in BOOLEAN : handleActiveChange(ok)) /\ UNCHANGED <<pmVars, sbVars, extVars>>

VMNext ==
  \/ VMWrite
  \/ VMStart
  \/ VMStop
  \/ VMActiveChange

SpecVM == Init /\ [][VMNext]_vars

\* -------------------------------------------------- claims on VaultMonitor

\* the latest handler was a change notification that read the file
ChangeHandled == vmLast.kind = "change" /\ vmLast.readOk

\* the content that handler read has the digest of the task stored before it
SameHashAsStored ==
  /\ vmLast.prev # <<>>
  /\ vmLast.prev[1].contentHash = computeHash(vmLast.read[1])

\* C9: a change notification that reads content whose hash differs from the
\* stored one emits at most one event: taskActivated carrying the new parse
\* when there was no stored task, taskUpdated carrying the new parse and the
\* diff when the diff against the stored task is meaningful, nothing
\* otherwise; lastActiveTask is then the new parse; and a notification that
\* reads the same content as the one handled before it emits nothing.
C9_OneEventPerChange ==
  ChangeHandled =>
    /\ ~SameHashAsStored =>
         LET new == parseTask(vmLast.read[1])
             d == diffTasks(vmLast.prev, new)
         IN /\ Len(vmLast.emitted) <= 1
            /\ d.isNewTask =>
                 vmLast.emitted = <<Event("taskActivated", <<new>>, <<>>)>>
            /\ (~d.isNewTask /\ hasMeaningfulChanges(d)) =>
                 vmLast.emitted = <<Event("taskUpdated", <<new>>, <<d>>)>>
            /\ ~hasMeaningfulChanges(d) => vmLast.emitted = <<>>
            /\ lastActiveTask = <<new>>
    /\ vmLast.repeat => vmLast.emitted = <<>>

\* a change with a new hash and no parsed difference was handled silently
\* and became the stored task
C9_Witness ==
  /\ ChangeHandled
  /\ ~SameHashAsStored
  /\ vmLast.prev # <<>>
  /\ ~hasMeaningfulChanges(diffTasks(vmLast.prev, parseTask(vmLast.read[1])))
  /\ lastActiveTask = <<parseTask(vmLast.read[1])>>

\* C10: a change notification that reads content with the stored hash emits
\* nothing and leaves lastActiveTask as it was.
C10_SameHashIsNoOp ==
  (ChangeHandled /\ SameHashAsStored) =>
    /\ vmLast.emitted = <<>>
    /\ lastActiveTask = vmLast.prev

\* a redundant notification was handled: same content as the notification
\* before it, same hash as the stored task
C10_Witness ==
  /\ ChangeHandled
  /\ SameHashAsStored
  /\ vmLast.repeat
  /\ lastActiveTask = vmLast.prev

\* a step in which start() ran and read the active file
StartRead == ~watching /\ watching' /\ vmLast'.kind = "start" /\ vmLast'.readOk

\* the events of the handler that ran in this step name no taskActivated
NoActivation ==
  \A i \in 1..Len(vmLast'.emitted) : vmLast'.emitted[i].name # "taskActivated"

SMFrame == UNCHANGED <<pmVars, sbVars, vmVars, vqVars, asVars, cmdVars, dsVars, botVars, dfVars, spVars>>

\* parseStatus applied to a status string
SMParse ==
  /\ \E raw \in RawStatuses :
       smLast' = [op |-> "parseStatus", raw |-> raw, from |-> <<>>, to |-> <<>>,
                  result |-> parseStatus(raw)]
  /\ SMFrame

\* canTransition applied to a parsed status, as the command handlers do
SMCanTransition ==
  /\ \E raw \in RawStatuses, to \in SetOf(TaskStatus) :
       /\ parseStatus(raw) # <<>>
       /\ smLast' = [op |-> "canTransition", raw |-> raw, from |-> parseStatus(raw),
                     to |-> <<to>>,
                     result |-> <<canTransition(parseStatus(raw)[1], to)>>]
  /\ SMFrame

\* transition applied to a parsed status
SMTransition ==
  /\ \E raw \in RawStatuses, to \in SetOf(TaskStatus) :
       /\ parseStatus(raw) # <<>>
       /\ smLast' = [op |-> "transition", raw |-> raw, from |-> parseStatus(raw),
                     to |-> <<to>>,
                     result |-> <<transition(parseStatus(raw)[1], to)>>]
  /\ SMFrame

\* getValidNextStates applied to a parsed status
SMNextStates ==
  /\ \E raw \in RawStatuses :
       /\ parseStatus(raw) # <<>>
       /\ smLast' = [op |-> "getValidNextStates", raw |-> raw,
                     from |-> parseStatus(raw), to |-> <<>>,
                     result |-> <<getValidNextStates(parseStatus(raw)[1])>>]
  /\ SMFrame

SMNext ==
  \/ SMParse
  \/ SMCanTransition
  \/ SMTransition
  \/ SMNextStates

SpecSM == Init /\ [][SMNext]_vars

\* the transition table as the specification prints it
TableRow(a) ==
  CASE a = "IN_PROGRESS" -> <<"EXECUTING", "BLOCKED">>
    [] a = "EXECUTING" -> <<"IN_PROGRESS", "PENDING_REVIEW">>
    [] a = "PENDING_REVIEW" -> <<"COMPLETED", "IN_PROGRESS">>
    [] a = "BLOCKED" -> <<"IN_PROGRESS">>
    [] a = "COMPLETED" -> <<>>

\* C17: for every pair of statuses (A, B), canTransition(A, B) is true exactly
\* when B is in the table row of A, transition(A, B) succeeds with newStatus B
\* exactly in those cases and fails otherwise, and getValidNextStates(A) is
\* exactly the row of A; COMPLETED has no outgoing transition.
C17_TransitionsMatchTable ==
  /\ smLast.op = "canTransition" =>
       smLast.result[1] = (smLast.to[1] \in SetOf(TableRow(smLast.from[1])))
  /\ smLast.op = "transition" =>
       IF smLast.to[1] \in SetOf(TableRow(smLast.from[1]))
       THEN smLast.result[1].success /\ smLast.result[1].newStatus = smLast.to
       ELSE ~smLast.result[1].success /\ smLast.result[1].newStatus = <<>>
  /\ smLast.op = "getValidNextStates" =>
       smLast.result[1] = TableRow(smLast.from[1])
  /\ (smLast.op = "canTransition" /\ smLast.from = <<"COMPLETED">>) =>
       ~smLast.result[1]
  /\ (smLast.op = "getValidNextStates" /\ smLast.from = <<"COMPLETED">>) =>
       smLast.result[1] = <<>>

\* a transition from PENDING_REVIEW to COMPLETED has just succeeded
C17_Witness ==
  /\ smLast.op = "transition"
  /\ smLast.from = <<"PENDING_REVIEW">>
  /\ smLast.to = <<"COMPLETED">>
  /\ smLast.result[1].success

\* ------------------------------------------------ ApprovalService: the calls
\* what an ApprovalService call leaves alone besides the files
ASFrame == UNCHANGED <<pmVars, sbVars, watching, lastActiveTask, vmLast, vqVars,
                       cmdVars, smVars, dsVars, botVars, dfVars, spVars>>

\* a call that returns a failure before it touches a file
ASFails(op, task, reason, message) ==
  /\ asLast' = ASResult(op, task, reason, FALSE, message, <<>>, FALSE, FALSE)
  /\ UNCHANGED <<activeFile, completedDir, asNow, asRun>>

\* an approve that takes a status outside the set for PENDING_REVIEW
approve_defaultsUnknown(task, approver, moveOk) ==
  /\ asNow <= MaxASCalls
  /\ asNow' = asNow + 1
  /\ IF ~moveOk
     THEN /\ asLast' = ASResult("approve", task, <<>>, FALSE,
                                <<"Failed to move task to completed">>, <<>>,
                                FALSE, FALSE)
          /\ UNCHANGED <<activeFile, completedDir, asRun>>
     ELSE /\ completedDir' =
               Append(completedDir,
                      moveToCompleted(task.id,
                        addApprovalMetadata(
                          appendToExecutionLog(
                            updateTaskStatus(task.rawContent, "COMPLETED"),
                            ApprovedLines[asNow]),
                          approver, asNow)))
          /\ activeFile' = <<NoneDoc>>
          /\ asRun' = [asRun EXCEPT !.base = 0, !.n = 0, !.fresh = FALSE]
          /\ asLast' = ASResult("approve", task, <<>>, TRUE, <<"approved", task.id>>,
                                <<>>, TRUE, TRUE)

\* approve (index.ts 63-123).  moveOk = FALSE: moveToCompleted reports a
\* failure (file-mover.ts 41-46).  The three edits of the content touch
\* different parts of it, so the metadata rows are added last here.
approve(task, approver, moveOk) ==
  LET currentStatus == parseStatus(task.metadata.status)
  IN IF currentStatus = <<>>
     THEN ASFails("approve", task, <<>>, <<"Unknown task status", task.metadata.status>>)
     ELSE IF /\ currentStatus[1] # "PENDING_REVIEW"
             /\ ~allCriteriaCompleted(task)
             /\ ~canTransition(currentStatus[1], "COMPLETED")
     THEN ASFails("approve", task, <<>>, <<"Cannot approve task in status", currentStatus[1]>>)
     ELSE /\ asNow <= MaxASCalls
          /\ asNow' = asNow + 1
          /\ IF ~moveOk
             THEN /\ asLast' = ASResult("approve", task, <<>>, FALSE,
                                        <<"Failed to move task to completed">>, <<>>,
                                        FALSE, FALSE)
                  /\ UNCHANGED <<activeFile, completedDir, asRun>>
             ELSE /\ completedDir' =
                       Append(completedDir,
                              moveToCompleted(task.id,
                                addApprovalMetadata(
                                  appendToExecutionLog(
                                    updateTaskStatus(task.rawContent, "COMPLETED"),
                                    ApprovedLines[asNow]),
                                  approver, asNow)))
                  /\ activeFile' = <<NoneDoc>>
                  /\ asRun' = [asRun EXCEPT !.base = 0, !.n = 0, !.fresh = FALSE]
                  /\ asLast' = ASResult("approve", task, <<>>, TRUE, <<"approved", task.id>>,
                                        <<>>, TRUE, TRUE)

\* a reject that writes the file before it looks at the reason
reject_writesFirst(task, rejector, reason) ==
  /\ asNow <= MaxASCalls
  /\ asNow' = asNow + 1
  /\ activeFile' = <<appendToExecutionLog(task.rawContent, RejectedLines[asNow])>>
  /\ asRun' = [asRun EXCEPT !.n = @ + 1]
  /\ asLast' = ASResult("reject", task, reason,
                        ~(Len(reason) = 0 \/ Len(trim(reason)) = 0),
                        <<"rejected", task.id>>, <<>>, TRUE, FALSE)
  /\ UNCHANGED completedDir

\* reject (index.ts 125-160)
reject(task, rejector, reason) ==
  IF Len(reason) = 0 \/ Len(trim(reason)) = 0
  THEN ASFails("reject", task, reason, <<"Rejection requires a reason.">>)
  ELSE IF parseStatus(task.metadata.status) = <<>>
  THEN ASFails("reject", task, reason, <<"Unknown task status", task.metadata.status>>)
  ELSE LET retryCount == getRetryCount(task.rawContent) + 1
           updatedContent ==
             appendToExecutionLog(
               updateRetryCount(updateTaskStatus(task.rawContent, "IN_PROGRESS"),
                                retryCount),
               RejectedLines[asNow])
       IN /\ asNow <= MaxASCalls
          /\ asNow' = asNow + 1
          /\ activeFile' = <<updatedContent>>
          /\ asRun' = [asRun EXCEPT !.n = @ + 1,
                                    !.fresh = IF asRun.n = 0
                                              THEN activeFile = <<task.rawContent>>
                                              ELSE @]
          /\ asLast' = ASResult("reject", task, reason, TRUE, <<"rejected", task.id>>,
                                <<retryCount>>, TRUE, FALSE)
          /\ UNCHANGED completedDir

\* somebody else writes the task document d to ACTIVE.md
ASWriteDoc(d) ==
  /\ asRun.writes < MaxASWrites
  /\ WriteActive(d)
  /\ asRun' = [base |-> getRetryCount(d), n |-> 0, fresh |-> FALSE,
               writes |-> asRun.writes + 1]
  /\ UNCHANGED <<pmVars, sbVars, vqVars, completedDir, asNow, asLast, cmdVars, smVars, dsVars, botVars, dfVars, spVars>>

ASWrite == \E d \in ASDocs : ASWriteDoc(d)

\* approve and reject as the command handlers call them (commands.ts 181,
\* 197, 208, 229): with the task the monitor last stored
ASApprove ==
  /\ lastActiveTask # <<>>
  /\ \E moveOk \in BOOLEAN : approve(lastActiveTask[1], "user#1234", moveOk)
  /\ ASFrame

ASReject ==
  /\ lastActiveTask # <<>>
  /\ \E reason \in Reasons : reject(lastActiveTask[1], "user#1234", reason)
  /\ ASFrame

ASNext ==
  \/ ASWrite
  \/ VMStart
  \/ VMActiveChange
  \/ ASApprove
  \/ ASReject

SpecAS == Init /\ [][ASNext]_vars

\* ------------------------------------------------ claims on ApprovalService
\* the argument of the latest call
CalledTask == asLast.task[1]
CalledStatus == parseStatus(CalledTask.metadata.status)
Blank(reason) == Len(reason) = 0 \/ Len(trim(reason)) = 0
WroteNothing == ~asLast.wroteActive /\ ~asLast.wroteCompleted

\* C13: approve succeeds only if the task status is PENDING_REVIEW, or if all
\* acceptance criteria are completed and the state machine permits a direct
\* transition from the current status to COMPLETED; for every other
\* combination of known status and criteria it returns a status-mismatch
\* failure and writes no file.
C13_ApproveNeedsReviewOrPermittedMove ==
  (asLast.op = "approve" /\ CalledStatus # <<>>) =>
    LET eligible == \/ CalledStatus[1] = "PENDING_REVIEW"
                    \/ /\ allCriteriaCompleted(CalledTask)
                       /\ canTransition(CalledStatus[1], "COMPLETED")
    IN /\ asLast.success => eligible
       /\ ~eligible => /\ ~asLast.success
                       /\ asLast.message[1] = "Cannot approve task in status"
                       /\ WroteNothing

\* C14: n successive successful rejects of the same active document return
\* 1, 2, ..., n above the count the document held (0 if absent) and leave
\* that count in the document, whether or not the monitor has refreshed its
\* stored task between two of them.
C14_RejectCountsUp ==
  (asLast.op = "reject" /\ asLast.success /\ asRun.n > 0 /\ asRun.fresh) =>
    /\ asLast.retryCount = <<asRun.base + asRun.n>>
    /\ activeFile # <<>>
    /\ getRetryCount(activeFile[1]) = asRun.base + asRun.n

\* C15: reject with an empty or whitespace-only reason always returns a
\* failure result and changes no file, whatever the status of the task.
C15_BlankReasonRejected ==
  [][(asLast' # asLast /\ asLast'.op = "reject" /\ Blank(asLast'.reason)) =>
       /\ ~asLast'.success
       /\ ~asLast'.wroteActive
       /\ ~asLast'.wroteCompleted
       /\ UNCHANGED <<activeFile, completedDir, watchedFiles>>]_vars

\* a reject with a reason of blanks only has just failed on a task whose
\* file exists
C15_Witness ==
  /\ asLast.op = "reject"
  /\ asLast.reason = <<" ", " ", " ">>
  /\ ~asLast.success
  /\ activeFile = <<CalledTask.rawContent>>

\* C16 as stated: approve and reject called on a task whose status is outside
\* the status set return a failure that names the unknown status and write
\* no file.
C16_UnknownStatusNamed ==
  (asLast.op \in {"approve", "reject"} /\ CalledStatus = <<>>) =>
    /\ ~asLast.success
    /\ asLast.message = <<"Unknown task status", CalledTask.metadata.status>>
    /\ WroteNothing

\* C16 amended: approve, and reject given a reason that is not blank, called
\* on a task whose status is outside the status set return a failure that
\* names the unknown status; reject given a blank reason fails for the
\* missing reason instead; in every case nothing is written and the call does
\* not succeed as it would for a member of the set.
C16_UnknownStatusNamedGivenReason ==
  (asLast.op \in {"approve", "reject"} /\ CalledStatus = <<>>) =>
    /\ ~asLast.success
    /\ WroteNothing
    /\ IF asLast.op = "reject" /\ Blank(asLast.reason)
       THEN asLast.message = <<"Rejection requires a reason.">>
       ELSE asLast.message = <<"Unknown task status", CalledTask.metadata.status>>

\* a reject with a real reason has just failed on a task whose status is
\* outside the set, naming it
C16_Witness ==
  /\ asLast.op = "reject"
  /\ ~Blank(asLast.reason)
  /\ CalledStatus = <<>>
  /\ asLast.message = <<"Unknown task status", "INVALID_STATUS">>

FileAppears(dir, d, n) ==
  /\ watchedFiles[dir].content = <<>>
  /\ watchedFiles["queue"].version + watchedFiles["completed"].version
       + watchedFiles["blocked"].version < MaxAppear
  /\ watchedFiles' = [watchedFiles EXCEPT ![dir] = [content |-> <<d>>,
                                                    version |-> @.version + 1]]
  /\ fsEvents' = IF watching THEN [fsEvents EXCEPT ![dir] = @ + n] ELSE fsEvents
  /\ UNCHANGED <<queuedLog, vmVars>>

\* the file is moved away or deleted; the monitor has no handler for this
FileRemoved(dir) ==
  /\ watchedFiles[dir].content # <<>>
  /\ watchedFiles' = [watchedFiles EXCEPT ![dir].content = <<>>]
  /\ UNCHANGED <<fsEvents, queuedLog, vmVars>>

\* the event the handler of a directory emits for a parsed task
AddedEvent(dir, task) ==
  Event(CASE dir = "queue" -> "taskQueued"
          [] dir = "completed" -> "taskCompleted"
          [] dir = "blocked" -> "taskBlocked",
        <<task>>, <<>>)

\* an 'add' handler that swallows a failed read and forgets the stored task
handleFileAdd_swallows(dir, readOk) ==
  /\ watching
  /\ fsEvents[dir] > 0
  /\ fsEvents' = [fsEvents EXCEPT ![dir] = @ - 1]
  /\ IF watchedFiles[dir].content = <<>> \/ ~readOk
     THEN /\ vmLast' = [kind |-> "add", readOk |-> FALSE, read |-> <<>>,
                        prev |-> lastActiveTask, emitted |-> <<>>, repeat |-> FALSE]
          /\ lastActiveTask' = <<>>
          /\ UNCHANGED queuedLog
     ELSE /\ vmLast' = [kind |-> "add", readOk |-> TRUE,
                        read |-> watchedFiles[dir].content, prev |-> lastActiveTask,
                        emitted |-> <<AddedEvent(dir, parseTask(watchedFiles[dir].content[1]))>>,
                        repeat |-> FALSE]
          /\ queuedLog' = IF dir = "queue"
                          THEN Append(queuedLog, watchedFiles[dir].version)
                          ELSE queuedLog
          /\ UNCHANGED lastActiveTask
  /\ UNCHANGED <<watchedFiles, activeFile, watching>>

\* the watcher's 'add' event: handleFileAdd (98-109) and the handler of the
\* directory (137-173).  readOk = FALSE: readFileSync throws.
handleFileAdd(dir, readOk) ==
  /\ watching
  /\ fsEvents[dir] > 0
  /\ fsEvents' = [fsEvents EXCEPT ![dir] = @ - 1]
  /\ IF watchedFiles[dir].content = <<>> \/ ~readOk
     THEN /\ vmLast' = [kind |-> "add", readOk |-> FALSE, read |-> <<>>,
                        prev |-> lastActiveTask,
                        emitted |-> <<Event("error", <<>>, <<>>)>>, repeat |-> FALSE]
          /\ UNCHANGED queuedLog
     ELSE /\ vmLast' = [kind |-> "add", readOk |-> TRUE,
                        read |-> watchedFiles[dir].content, prev |-> lastActiveTask,
                        emitted |-> <<AddedEvent(dir, parseTask(watchedFiles[dir].content[1]))>>,
                        repeat |-> FALSE]
          /\ queuedLog' = IF dir = "queue"
                          THEN Append(queuedLog, watchedFiles[dir].version)
                          ELSE queuedLog
  /\ UNCHANGED <<watchedFiles, activeFile, watching, lastActiveTask>>

VQFrame == UNCHANGED <<pmVars, sbVars, asVars, cmdVars, smVars, dsVars, botVars, dfVars, spVars>>

VQAppear == (\E dir \in AddDirs, d \in QueueDocs, n \in {1, 2} : FileAppears(dir, d, n)) /\ VQFrame
VQRemove == (\E dir \in AddDirs : FileRemoved(dir)) /\ VQFrame
VQFileAdd == (\E dir \in AddDirs, ok \in BOOLEAN : handleFileAdd(dir, ok)) /\ VQFrame

VQNext ==
  \/ VMStart
  \/ VMStop
  \/ VQAppear
  \/ VQRemove
  \/ VQFileAdd

SpecVQ == Init /\ [][VQNext]_vars

\* C11: two file-appearance notifications for the same file of the queue
\* directory with unchanged content produce at most one taskQueued emission:
\* no version of the file has taskQueued emitted for it twice.
C11_QueuedOncePerFileVersion ==
  \A i, j \in 1..Len(queuedLog) : i # j => queuedLog[i] # queuedLog[j]

\* ------------------------------- VaultMonitor: every kind of notification
\* a task document is written to ACTIVE.md
VWWrite == (\E d \in QueueDocs : WriteActive(d)) /\ UNCHANGED <<pmVars, sbVars, extVars>>

\* the monitor with the 'change' handler of ACTIVE.md and the 'add' handlers
\* of the three directories
VWNext ==
  \/ VWWrite
  \/ VMStart
  \/ VMStop
  \/ VMActiveChange
  \/ VQAppear
  \/ VQRemove
  \/ VQFileAdd

SpecVW == Init /\ [][VWNext]_vars

\* C23: a read failure while handling a filesystem notification (a change
\* of ACTIVE.md, an add in queue, completed or blocked) is reported as one
\* error event, leaves lastActiveTask as it was before the notification,
\* and the monitor keeps watching with every other pending notification
\* still to be handled.
C23_ReadFailureReported ==
  [][((VMActiveChange \/ VQFileAdd) /\ ~vmLast'.readOk) =>
       /\ vmLast'.emitted = <<Event("error", <<>>, <<>>)>>
       /\ lastActiveTask' = lastActiveTask
       /\ vmLast'.prev = lastActiveTask
       /\ watching /\ watching'
       /\ IF vmLast'.kind = "add"
          THEN \E dir \in AddDirs : fsEvents' = [fsEvents EXCEPT ![dir] = @ - 1]
          ELSE fsEvents' = fsEvents]_vars

\* with a task stored, the add of a file that could not be read has been
\* reported as an error, the task is still stored and another notification
\* is waiting
C23_Witness ==
  /\ vmLast.kind = "add"
  /\ ~vmLast.readOk
  /\ vmLast.emitted = <<Event("error", <<>>, <<>>)>>
  /\ vmLast.prev # <<>>
  /\ lastActiveTask = vmLast.prev
  /\ watching
  /\ \E dir \in AddDirs : fsEvents[dir] > 0

\* ----------------------------------------------------- slash commands
\* isRunning() (process-manager.ts 58-60)
isRunning == process # 0

\* a handler is suspended at its await of deferReply() with the task it read
Deferred(c, task, reason) ==
  cmd' = [cmd EXCEPT ![c] = [pc |-> "deferred", task |-> task, reason |-> reason]]

\* a handler has returned
Returned(c) ==
  cmd' = [cmd EXCEPT ![c] = [pc |-> "idle", task |-> <<>>, reason |-> <<>>]]

\* the document written to ACTIVE.md for the commands: it may be started
\* (IN_PROGRESS) and approved (every criterion completed)
CmdDocs == {d \in ASDocs : d.status = "IN_PROGRESS"
                           /\ d.criteria = <<[text |-> "a", completed |-> TRUE]>>}

\* a handleStart without the check of the task's status
handleStartBegin_anyStatus ==
  /\ cmd["start"].pc = "idle"
  /\ IF lastActiveTask = <<>> \/ isRunning
     THEN UNCHANGED cmd
     ELSE Deferred("start", lastActiveTask, <<>>)
  /\ UNCHANGED <<pmVars, sbVars, vmVars, vqVars, asVars, smVars, dsVars, botVars, dfVars, spVars>>

\* handleStart up to its first await (part_006 331-359)
handleStartBegin ==
  /\ cmd["start"].pc = "idle"
  /\ IF \/ lastActiveTask = <<>>
        \/ isRunning
        \/ parseStatus(lastActiveTask[1].metadata.status) = <<>>
        \/ ~canTransition(parseStatus(lastActiveTask[1].metadata.status)[1], "EXECUTING")
     THEN UNCHANGED cmd
     ELSE Deferred("start", lastActiveTask, <<>>)
  /\ UNCHANGED <<pmVars, sbVars, vmVars, vqVars, asVars, smVars, dsVars, botVars, dfVars, spVars>>

\* handleStart after deferReply() and startStreaming() (361-371): start()
\* is called with the task read before; its throw is caught
handleStartResume(outcome) ==
  /\ cmd["start"].pc = "deferred"
  /\ start(cmd["start"].task[1].id, outcome)
  /\ Returned("start")
  /\ UNCHANGED <<sbVars, vmVars, vqVars, asVars, smVars, dsVars, botVars, dfVars, spVars>>

\* handleApprove up to its first await (402-429)
handleApproveBegin ==
  /\ cmd["approve"].pc = "idle"
  /\ IF lastActiveTask = <<>> \/ isRunning
     THEN UNCHANGED cmd
     ELSE Deferred("approve", lastActiveTask, <<>>)
  /\ UNCHANGED <<pmVars, sbVars, vmVars, vqVars, asVars, smVars, dsVars, botVars, dfVars, spVars>>

\* handleApprove after deferReply() (431-438)
handleApproveResume(moveOk) ==
  /\ cmd["approve"].pc = "deferred"
  /\ approve(cmd["approve"].task[1], "user#1234", moveOk)
  /\ Returned("approve")
  /\ UNCHANGED <<pmVars, sbVars, watching, lastActiveTask, vmLast, vqVars, smVars, dsVars, botVars, dfVars, spVars>>

\* handleReject up to its first await (441-468)
handleRejectBegin(reason) ==
  /\ cmd["reject"].pc = "idle"
  /\ IF lastActiveTask = <<>> \/ isRunning
     THEN UNCHANGED cmd
     ELSE Deferred("reject", lastActiveTask, reason)
  /\ UNCHANGED <<pmVars, sbVars, vmVars, vqVars, asVars, smVars, dsVars, botVars, dfVars, spVars>>

\* handleReject after deferReply() (470-477)
handleRejectResume ==
  /\ cmd["reject"].pc = "deferred"
  /\ reject(cmd["reject"].task[1], "user#1234", cmd["reject"].reason)
  /\ Returned("reject")
  /\ UNCHANGED <<pmVars, sbVars, watching, lastActiveTask, vmLast, vqVars, smVars, dsVars, botVars, dfVars, spVars>>

CmdWrite == \E d \in CmdDocs : ASWriteDoc(d)
CmdStartBegin == handleStartBegin
CmdStartResume == \E o \in StartOutcomes : handleStartResume(o)
CmdApproveBegin == handleApproveBegin
CmdApproveResume == \E ok \in BOOLEAN : handleApproveResume(ok)
CmdRejectBegin == \E reason \in Reasons : handleRejectBegin(reason)
CmdRejectResume == handleRejectResume

\* The commands, the monitor that stores the task they read, and the exit
\* of a started subprocess, after which isRunning() is false again.
CmdNext ==
  \/ CmdWrite
  \/ VMStart
  \/ VMActiveChange
  \/ CmdStartBegin
  \/ CmdStartResume
  \/ CmdApproveBegin
  \/ CmdApproveResume
  \/ CmdRejectBegin
  \/ CmdRejectResume
  \/ PMClose

SpecCmd == Init /\ [][CmdNext]_vars

\* C12: approve and reject write the active task file only while
\* ProcessManager reports not running: in every interleaving of the start,
\* approve and reject handlers, a step in which the approval service writes
\* ACTIVE.md is taken with no subprocess tracked.
C12_ApprovalWritesOnlyWhenIdle ==
  [][(asNow' # asNow /\ asLast'.wroteActive) => ~isRunning]_vars


\* C29: stop() with no subprocess tracked does nothing: the call returns at
\* once, nothing is emitted, no child gets a signal, no force-kill timer is
\* armed and no field of the ProcessManager changes.
C29_StopWithoutProcessIsNoop ==
  [][(PMStop /\ process = 0) =>
       /\ pmLast'.result = "noop"
       /\ pmLast'.emitted = <<>>
       /\ UNCHANGED <<process, currentTaskId, startTime, outputBuffer,
                      executionTimeout, execTimer, child, stops>>]_vars

\* stop() has just returned without effect, after an execution that ended
C29_Witness ==
  /\ pmLast.op = "stop"
  /\ pmLast.result = "noop"
  /\ process = 0
  /\ \E p \in Procs : child[p].state = "closed"
  /\ stops = <<>>

\* C30: a stop() sends SIGTERM to its subprocess when it is called and no
\* SIGKILL; a SIGKILL is sent only by the force-kill timer of a stop whose
\* subprocess, already sent SIGTERM, has not closed; when the subprocess
\* closes, the armed force-kill timers of its stops are cleared, a cleared
\* timer never fires, and a closed subprocess is sent no SIGKILL.
C30_TermThenKillUnlessClosed ==
  [][/\ Len(stops') = Len(stops) + 1 =>
          /\ process # 0
          /\ stops'[Len(stops')].target = process
          /\ stops'[Len(stops')].timer = "armed"
          /\ child'[process].sigterm
          /\ child'[process].sigkill = child[process].sigkill
     /\ \A q \in Procs :
          (child'[q].sigkill /\ ~child[q].sigkill) =>
            \E s \in 1..Len(stops) :
              /\ stops[s].timer = "armed"
              /\ stops'[s].timer = "fired"
              /\ child[stops[s].target].state # "closed"
              /\ child[stops[s].target].sigterm
     /\ \A p \in Procs :
          (child[p].state # "closed" /\ child'[p].state = "closed") =>
            \A s \in 1..Len(stops) :
              stops[s].target = p =>
                /\ stops'[s].timer # "armed"
                /\ stops[s].timer = "armed" => stops'[s].timer = "cleared"
     /\ \A s \in 1..Len(stops) :
          stops[s].timer = "cleared" => stops'[s].timer = "cleared"
     /\ \A p \in Procs :
          child[p].state = "closed" => child'[p].sigkill = child[p].sigkill]_vars

\* a stopped subprocess closed before the force-kill timer fired: it was
\* sent SIGTERM, the timer is cleared and no SIGKILL was sent
C30_Witness ==
  /\ Len(stops) >= 1
  /\ stops[1].timer = "cleared"
  /\ child[stops[1].target].state = "closed"
  /\ child[stops[1].target].sigterm
  /\ ~child[stops[1].target].sigkill

\* child p, force-killed and no longer tracked, emits 'close' or 'error' in
\* this step while a subprocess started after it is tracked
StaleEvent(p) ==
  /\ child[p].sigkill
  /\ process # 0
  /\ process # p
  /\ pmLast'.op \in {"close", "error"}
  /\ pmLast'.owner = p
  /\ child'[p] # child[p]

\* C35: a close or error event of a subprocess that was force-killed and
\* untracked leaves the tracked state of the subprocess started after it as
\* it is (process, currentTaskId, startTime, the execution timeout) and
\* emits neither completed nor stopped while that subprocess runs.
C35_StaleEventLeavesNewProcess ==
  [][\A p \in Procs :
       StaleEvent(p) =>
         /\ UNCHANGED <<process, currentTaskId, startTime, executionTimeout, execTimer>>
         /\ \A k \in DOMAIN pmLast'.emitted :
              pmLast'.emitted[k] \notin {"completed", "stopped"}]_vars

\* ------------------------------------- ProcessManager: overlapping stops
\* the callback of setupExecutionTimeout (174-177) as in ExecTimeoutFire,
\* with its stop() not counted in MaxStops: a timer fires once for a child,
\* so these calls are bounded by MaxProcs
TimeoutStops(p) ==
  /\ execTimer[p] = "armed"
  /\ execTimer' = [execTimer EXCEPT ![p] = "fired"]
  /\ IF process = 0
     THEN UNCHANGED <<stops, child>>
     ELSE /\ stops' = Append(stops, [target |-> process,
                                     reason |-> "Execution timeout reached",
                                     timer |-> "armed", listening |-> TRUE,
                                     promise |-> "pending", stopped |-> 0])
          /\ child' = [child EXCEPT ![process].sigterm = TRUE]
  /\ pmLast' = Last("execTimeout", IF process = 0 THEN "noop" ELSE "pending",
                    <<>>, p, process, FALSE)
  /\ UNCHANGED <<process, currentTaskId, startTime, outputBuffer,
                 executionTimeout>>

\* stops from commands and from the execution timeout on one subprocess
OverlapNext ==
  \/ PMStart
  \/ PMStop
  \/ (\E p \in Procs : TimeoutStops(p)) /\ UNCHANGED <<sbVars, vmVars, extVars>>
  \/ (\E s \in 1..(MaxStops + MaxProcs) : ForceKillFire(s))
       /\ UNCHANGED <<sbVars, vmVars, extVars>>
  \/ PMClose

SpecOverlap == Init /\ [][OverlapNext]_vars

\* the stop() calls made on child p
StopsOn(p) == {s \in 1..Len(stops) : stops[s].target = p}

\* the stopped events emitted by the stops of a set
RECURSIVE StoppedBy(_)
StoppedBy(S) ==
  IF S = {} THEN 0
  ELSE LET s == CHOOSE x \in S : TRUE
       IN stops[s].stopped + StoppedBy(S \ {s})

\* C36: when more than one stop() was called on a subprocess, one stopped
\* event is emitted for it in all, and once it has closed every one of the
\* stop() promises is resolved.
C36_OverlappingStopsEmitOnce ==
  \A p \in Procs :
    Cardinality(StopsOn(p)) >= 2 =>
      /\ StoppedBy(StopsOn(p)) <= 1
      /\ child[p].state = "closed" =>
           /\ StoppedBy(StopsOn(p)) = 1
           /\ \A s \in StopsOn(p) : stops[s].promise = "resolved"

\* ------------------------------------------ StreamBuffer: a failing sink
\* the StreamBuffer with a sink whose calls can fail
SBFailNext ==
  \/ SBStart
  \/ SBStop
  \/ SBAppendAny
  \/ SBTick
  \/ SBSettleAny
  \/ \E i \in 1..MaxChars : SBReject(i)
  \/ SBClear

SpecSBFail == Init /\ [][SBFailNext]_vars

\* the sink call that fails in this step
FailsNow(i) == i \in InFlight /\ sinkCalls'[i].settled /\ sinkCalls'[i].failed

\* C32: when a sink call fails, its batch is not sent again; the in-flight
\* flag is reset, or, when content was queued during the call, the queued
\* content is handed to the sink at once; the flag is set only while a
\* sink call is unsettled, so after a failure an append that reaches the
\* threshold or a tick with content calls the sink again.
C32_SinkFailureRecovered ==
  [][/\ \A i \in 1..Len(sinkCalls) :
          FailsNow(i) =>
            /\ sinkCalls'[i].content = sinkCalls[i].content
            /\ IF pendingFlush.set
               THEN /\ Len(sinkCalls') = Len(sinkCalls) + 1
                    /\ sinkCalls'[Len(sinkCalls')].content = pendingFlush.text
                    /\ ~sinkCalls'[Len(sinkCalls')].settled
                    /\ pendingFlush' = NoPending
                    /\ isFlushing'
               ELSE /\ Len(sinkCalls') = Len(sinkCalls)
                    /\ ~isFlushing'
     /\ isFlushing' <=> (\E j \in 1..Len(sinkCalls') : ~sinkCalls'[j].settled)
     /\ ((\E i \in 1..Len(sinkCalls) : sinkCalls[i].failed) /\ ~isFlushing
         /\ Len(buffer) > 0 /\ SBTick) =>
          /\ Len(sinkCalls') = Len(sinkCalls) + 1
          /\ sinkCalls'[Len(sinkCalls')].content = buffer
     /\ ((\E i \in 1..Len(sinkCalls) : sinkCalls[i].failed) /\ ~isFlushing
         /\ appended' > appended /\ Len(buffer') = 0 /\ ~SBClear) =>
          /\ Len(sinkCalls') = Len(sinkCalls) + 1
          /\ Len(sinkCalls'[Len(sinkCalls')].content) >= MaxBufferSize]_vars

\* a sink call failed while content was queued; the queued content was
\* handed to the sink next and delivered, and so was content appended after
\* the failure
C32_Witness ==
  /\ Len(sinkCalls) >= 3
  /\ sinkCalls[1].failed
  /\ sinkCalls[2].settled /\ ~sinkCalls[2].failed
  /\ sinkCalls[3].settled /\ ~sinkCalls[3].failed
  /\ ~isFlushing
  /\ pendingFlush = NoPending

\* ------------------------------------------- start commands, text and slash
\* `!oads start`, handleStart of commands.ts, up to its first await
\* (126-150): the same three checks, then `await ctx.bot.startStreaming()`
textStartBegin ==
  /\ cmd["textStart"].pc = "idle"
  /\ IF \/ lastActiveTask = <<>>
        \/ isRunning
        \/ parseStatus(lastActiveTask[1].metadata.status) = <<>>
        \/ ~canTransition(parseStatus(lastActiveTask[1].metadata.status)[1], "EXECUTING")
     THEN UNCHANGED cmd
     ELSE Deferred("textStart", lastActiveTask, <<>>)
  /\ UNCHANGED <<pmVars, sbVars, vmVars, vqVars, asVars, smVars, dsVars, botVars, dfVars, spVars>>

\* handleStart of commands.ts after startStreaming() (151-158), which
\* returns at once when the bot has no active thread (client.ts 537-539):
\* start() is called with the task read before; its throw is caught
textStartResume(outcome) ==
  /\ cmd["textStart"].pc = "deferred"
  /\ start(cmd["textStart"].task[1].id, outcome)
  /\ Returned("textStart")
  /\ UNCHANGED <<sbVars, vmVars, vqVars, asVars, smVars, dsVars, botVars, dfVars, spVars>>

\* the documents written to ACTIVE.md for the start commands: every status,
\* a lower-case spelling and a string outside the set
StartDocs == {d \in ASDocs : d.criteria = <<>> /\ d.retry = <<>>}

\* The two start commands, possibly both suspended at once, the monitor
\* that stores the task they read, and the exit of a started subprocess.
StartNext ==
  \/ \E d \in StartDocs : ASWriteDoc(d)
  \/ VMStart
  \/ VMActiveChange
  \/ CmdStartBegin
  \/ CmdStartResume
  \/ textStartBegin
  \/ \E o \in StartOutcomes : textStartResume(o)
  \/ PMClose

SpecStart == Init /\ [][StartNext]_vars

StartCommands == {"start", "textStart"}

\* a subprocess is spawned in this step
Spawned == \E p \in Procs : child[p].state = "unborn" /\ child'[p].state = "running"

\* C31: a start command spawns the subprocess only when it read an active
\* task, no process is running and the task's status parses to IN_PROGRESS;
\* a command goes past its checks only under these conditions, and when a
\* process is running by the time it calls start, nothing is spawned and
\* the ProcessManager's fields are unchanged.
C31_StartOnlyWhenAllowed ==
  [][/\ Spawned =>
          \E c \in StartCommands :
            /\ cmd[c].pc = "deferred"
            /\ cmd'[c].pc = "idle"
            /\ cmd[c].task # <<>>
            /\ process = 0
            /\ parseStatus(cmd[c].task[1].metadata.status) = <<"IN_PROGRESS">>
     /\ \A c \in StartCommands :
          (cmd[c].pc = "idle" /\ cmd'[c].pc = "deferred") =>
            /\ lastActiveTask # <<>>
            /\ cmd'[c].task = lastActiveTask
            /\ process = 0
            /\ parseStatus(lastActiveTask[1].metadata.status) = <<"IN_PROGRESS">>
            /\ UNCHANGED pmVars
     /\ \A c \in StartCommands :
          (cmd[c].pc = "deferred" /\ cmd'[c].pc = "idle" /\ process # 0) =>
            /\ ~Spawned
            /\ UNCHANGED <<process, currentTaskId, startTime, outputBuffer,
                           executionTimeout, execTimer, child, stops>>]_vars

\* both commands went past their checks; the first spawned the subprocess,
\* the second was turned away by start() and changed nothing
C31_Witness ==
  /\ process # 0
  /\ pmLast.op = "start"
  /\ pmLast.result = "already running"
  /\ \A c \in StartCommands : cmd[c].pc = "idle"
  /\ Cardinality({p \in Procs : child[p].state # "unborn"}) = 1

\* ---------------------------------------- DiscordStreamer: sendToDiscord
\* how a channel.send() settles: delivered, rejected with httpStatus 429
\* (isRateLimitError, process-manager.ts 553-558), rejected otherwise
SendOutcomes == {"ok", "429", "error"}

DSFrame == UNCHANGED <<pmVars, sbVars, vmVars, vqVars, asVars, cmdVars, smVars, botVars, dfVars, spVars>>

\* one line of the call's history
Attempt(piece, kind, outcome) == [piece |-> piece, kind |-> kind, outcome |-> outcome]

\* the for loop goes on to the next piece, or the call returns (437-461)
NextPiece(log, sent) ==
  ds' = IF ds.idx < ds.pieces
        THEN [ds EXCEPT !.idx = @ + 1, !.pc = "first", !.log = log,
                        !.messagesSent = sent]
        ELSE [ds EXCEPT !.pc = "idle", !.log = log, !.result = "resolved",
                        !.messagesSent = sent]

\* sendToDiscord(content) is called by the StreamBuffer (433-437); the
\* content splits into n pieces, none for blank content (434)
sendToDiscord(n) ==
  /\ ds.pc = "idle"
  /\ ds.batches < MaxBatches
  /\ ds' = IF n = 0
           THEN [ds EXCEPT !.batches = @ + 1, !.pieces = 0, !.idx = 0, !.log = <<>>,
                           !.result = "resolved"]
           ELSE [ds EXCEPT !.batches = @ + 1, !.pieces = n, !.idx = 1, !.log = <<>>,
                           !.pc = "first", !.result = "pending"]

\* a first attempt that is repeated after every failure
FirstSettles_retriesAll(outcome) ==
  /\ ds.pc = "first"
  /\ LET log == Append(ds.log, Attempt(ds.idx, "send", outcome))
     IN IF outcome = "ok"
        THEN NextPiece(log, ds.messagesSent + 1)
        ELSE ds' = [ds EXCEPT !.pc = "sleep", !.log = log]

\* the first channel.send() of a piece settles (439-448)
FirstSettles(outcome) ==
  /\ ds.pc = "first"
  /\ LET log == Append(ds.log, Attempt(ds.idx, "send", outcome))
     IN IF outcome = "ok"
        THEN NextPiece(log, ds.messagesSent + 1)
        ELSE IF outcome = "429"
        THEN ds' = [ds EXCEPT !.pc = "sleep", !.log = log]
        ELSE NextPiece(log, ds.messagesSent)

\* sleep(2000) elapses and channel.send() is called again (449-452)
BackoffElapsed ==
  /\ ds.pc = "sleep"
  /\ ds' = [ds EXCEPT !.pc = "second",
                      !.log = Append(@, Attempt(ds.idx, "sleep", "2000"))]

\* the second channel.send() of a piece settles (452-458)
SecondSettles(outcome) ==
  /\ ds.pc = "second"
  /\ LET log == Append(ds.log, Attempt(ds.idx, "send", outcome))
     IN NextPiece(log, IF outcome = "ok" THEN ds.messagesSent + 1 ELSE ds.messagesSent)

DSNext ==
  \/ (\E n \in 0..MaxPieces : sendToDiscord(n)) /\ DSFrame
  \/ (\E o \in SendOutcomes : FirstSettles(o)) /\ DSFrame
  \/ BackoffElapsed /\ DSFrame
  \/ (\E o \in SendOutcomes : SecondSettles(o)) /\ DSFrame

SpecDS == Init /\ [][DSNext]_vars

\* the lines of the call's history that belong to piece i
LinesOf(i) == SelectSeq(ds.log, LAMBDA a : a.piece = i)

\* piece i is done with: the loop has moved on or the call has returned
Finished(i) == i < ds.idx \/ (i = ds.idx /\ ds.pc = "idle")

\* C25: every piece gets at most two send attempts; a second attempt is made
\* exactly when the first one failed with a rate-limit error, after the
\* backoff; a piece whose attempts failed is dropped and the next piece is
\* sent, in order; the call never rejects, so the StreamBuffer sees no
\* failure; only delivered pieces are counted as sent.
C25_OneRetryOnRateLimit ==
  /\ ds.result # "rejected"
  /\ \A k \in 1..(Len(ds.log) - 1) : ds.log[k].piece <= ds.log[k + 1].piece
  /\ \A i \in 1..ds.pieces :
       LET lines == LinesOf(i)
       IN /\ Len(lines) <= 3
          /\ Len(lines) >= 1 => (lines[1].kind = "send")
          /\ Len(lines) >= 2 => (lines[1].outcome = "429" /\ lines[2].kind = "sleep")
          /\ Len(lines) = 3 => (lines[3].kind = "send")
          /\ Finished(i) =>
               /\ Len(lines) \in {1, 3}
               /\ (Len(lines) = 3) <=> (lines[1].outcome = "429")
          /\ i > ds.idx => lines = <<>>
  /\ (ds.pc = "idle" /\ ds.batches > 0) => ds.result = "resolved"
  /\ Cardinality({k \in 1..Len(ds.log) : ds.log[k].outcome = "ok"}) <= ds.messagesSent

\* the first piece was tried twice, after a rate-limit error and the
\* backoff, and dropped; the second piece was then delivered at once and the
\* call returned
C25_Witness ==
  /\ ds.pieces = 2
  /\ ds.pc = "idle"
  /\ ds.result = "resolved"
  /\ ds.log = <<Attempt(1, "send", "429"), Attempt(1, "sleep", "2000"),
                Attempt(1, "send", "error"), Attempt(2, "send", "ok")>>


\* ------------------------------------- OadsBot: the streamer of an execution
BotFrame == UNCHANGED <<sbVars, vmVars, vqVars, asVars, cmdVars, smVars, dsVars, dfVars, spVars>>

\* the sequence without its i-th element
Without(seq, i) == [k \in 1..(Len(seq) - 1) |-> IF k < i THEN seq[k] ELSE seq[k + 1]]

\* the exit code a listener hands to stopStreamer: the 'completed' listener
\* the code of the event, the 'stopped' listener null (client.ts 348-354,
\* 508-514); -1 stands for null
CodesOf(emitted, code) ==
  LET heard == SelectSeq(emitted, LAMBDA e : e \in {"completed", "stopped"})
  IN [k \in 1..Len(heard) |-> IF heard[k] = "completed" THEN code ELSE -1]

\* the listeners run inside emit(): each one enters stopStreamer, which under
\* `if (this.activeStreamer)` calls activeStreamer.stop() and is suspended
\* there (client.ts 516-522); the field is not changed before the await
Heard(emitted, code) ==
  bot' = IF bot.activeStreamer = 0
         THEN bot
         ELSE [bot EXCEPT !.calls = @ \o [k \in 1..Len(CodesOf(emitted, code)) |->
                                           [pc |-> "stop", exitCode |-> CodesOf(emitted, code)[k]]]]

\* handleStart after its checks (commands.ts 147-151): startStreaming makes
\* a new streamer (client.ts 536-553), then ProcessManager.start runs
BotStart ==
  /\ process = 0
  /\ NextChild # 0
  /\ \E t \in Tasks : start(t, "ok")
  /\ bot' = [bot EXCEPT !.activeStreamer = NextChild]
  /\ BotFrame

\* a ProcessManager handler runs and the bot's listeners hear what it emits
BotHears ==
  /\ \/ stop("manual")
     \/ \E p \in Procs : ExecTimeoutFire(p)
     \/ \E s \in 1..MaxStops : ForceKillFire(s)
     \/ \E p \in Procs, code \in {-1, 0, 1} : Close(p, code)
  /\ Heard(pmLast'.emitted, IF pmLast'.op = "close" THEN pmLast'.result ELSE -1)
  /\ BotFrame

\* `await this.activeStreamer.stop()` is over: sendSummary is called on the
\* streamer the field holds now (client.ts 523, process-manager.ts 408-421);
\* with the field null the call throws and the catch logs it (524-527)
StopSettles(i) ==
  /\ i \in 1..Len(bot.calls)
  /\ bot.calls[i].pc = "stop"
  /\ bot' = IF bot.activeStreamer = 0
            THEN [bot EXCEPT !.calls = Without(@, i)]
            ELSE [bot EXCEPT !.calls[i].pc = "summary",
                             !.summaries = Append(@, [streamer |-> bot.activeStreamer,
                                                      exitCode |-> bot.calls[i].exitCode])]
  /\ UNCHANGED pmVars
  /\ BotFrame

\* `await this.activeStreamer.sendSummary(...)` is over: the field is set to
\* null (client.ts 527)
SummarySettles(i) ==
  /\ i \in 1..Len(bot.calls)
  /\ bot.calls[i].pc = "summary"
  /\ bot' = [bot EXCEPT !.calls = Without(@, i), !.activeStreamer = 0]
  /\ UNCHANGED pmVars
  /\ BotFrame

BotNext ==
  \/ BotStart
  \/ BotHears
  \/ \E i \in 1..(2 * MaxProcs + MaxStops) : StopSettles(i)
  \/ \E i \in 1..(2 * MaxProcs + MaxStops) : SummarySettles(i)

SpecBot == Init /\ [][BotNext]_vars

\* the summaries sent on the streamer of child p
SummariesOf(p) == SelectSeq(bot.summaries, LAMBDA m : m.streamer = p)

\* C26: an execution gets exactly one terminal summary, however it ends: never
\* more than one, and one once its child has closed and the bot's handlers
\* have finished.
C26_OneSummaryPerSession ==
  \A p \in Procs :
    /\ Len(SummariesOf(p)) <= 1
    /\ (child[p].state = "closed" /\ bot.calls = <<>>) => Len(SummariesOf(p)) = 1


\* ------------------------------------------------- diffTasks as a function
\* the lists of length 0..n over a set
ListsUpTo(S, n) == UNION {[1..k -> S] : k \in 0..n}

\* the tasks handed to diffTasks: up to MaxCriteria criteria, texts and
\* completion free, so a text can occur twice; up to MaxLogLines log lines,
\* so a line can occur twice
DiffTasks ==
  {parseTask(d) :
     d \in [id : {"T1"},
            status : SetOf(StatusList),
            criteria : ListsUpTo([text : SetOf(TextList), completed : BOOLEAN], MaxCriteria),
            log : ListsUpTo(SetOf(LogList), MaxLogLines),
            retry : {<<>>},
            pad : {0}]}

DiffFrame ==
  UNCHANGED <<pmVars, sbVars, vmVars, vqVars, asVars, cmdVars, smVars, dsVars, botVars,
              spVars>>

\* diffTasks(oldTask, newTask) followed by hasMeaningfulChanges (types.ts
\* 160-220, as called in vault-monitor.ts 125-127); the functions keep no
\* state, so one call is made in a run
DiffCall(op, oldTask, newTask) ==
  /\ dfLast.op = "none"
  /\ dfLast' = [op |-> op, old |-> oldTask, new |-> <<newTask>>,
                diff |-> <<diffTasks(oldTask, newTask)>>,
                meaningful |-> hasMeaningfulChanges(diffTasks(oldTask, newTask))]
  /\ DiffFrame

DiffNext ==
  /\ dfLast.op = "none"
  /\ \/ \E T \in DiffTasks : DiffCall("new", <<>>, T)
     \/ \E T \in DiffTasks : DiffCall("same", <<T>>, T)
     \/ \E S \in DiffTasks, T \in DiffTasks : DiffCall("pair", <<S>>, T)

SpecDiff == Init /\ [][DiffNext]_vars

\* C27: diffTasks(null, T) has isNewTask and statusChanged true, newStatus T's
\* status, newLogEntries T's execution log in order, criteriaChanged false
\* and no changed criteria.
C27_DiffOfNewTask ==
  (dfLast.op # "none" /\ dfLast.old = <<>>) =>
    LET T == dfLast.new[1]
        d == dfLast.diff[1]
    IN /\ d.isNewTask
       /\ d.statusChanged
       /\ d.newStatus = <<T.metadata.status>>
       /\ d.newLogEntries = T.executionLog
       /\ ~d.criteriaChanged
       /\ d.changedCriteria = <<>>

\* a new task with two criteria and two log lines has been diffed
C27_Witness ==
  /\ dfLast.op = "new"
  /\ dfLast.old = <<>>
  /\ Len(dfLast.new[1].acceptanceCriteria) = 2
  /\ Len(dfLast.new[1].executionLog) = 2
  /\ dfLast.diff[1].newLogEntries = dfLast.new[1].executionLog

\* C28: diffTasks(T, T) reports no new task, no status change, no criteria
\* change and no new log entries, so hasMeaningfulChanges is false, for every
\* T, also one with a criterion text or a log line occurring twice.
C28_DiffOfSameTask ==
  (dfLast.op # "none" /\ dfLast.old = dfLast.new) =>
    LET d == dfLast.diff[1]
    IN /\ ~d.isNewTask
       /\ ~d.statusChanged
       /\ ~d.criteriaChanged
       /\ d.newLogEntries = <<>>
       /\ ~dfLast.meaningful


\* the criterion's text occurs in the old list with the other completion
FlippedFrom(oldCriteria, c) ==
  \E i \in DOMAIN oldCriteria :
    oldCriteria[i].text = c.text /\ oldCriteria[i].completed # c.completed

\* C34: diffTasks of two tasks has one changedCriteria entry, in order, for
\* each criterion of the new task whose text occurs in the old task with a
\* different completed flag, and no other entry: none for a text only in the
\* new or only in the old task; criteriaChanged is true exactly when there is
\* an entry.
C34_CriteriaMatchedByText ==
  (dfLast.op # "none" /\ dfLast.old # <<>>) =>
    LET oldCriteria == dfLast.old[1].acceptanceCriteria
        flipped == SelectSeq(dfLast.new[1].acceptanceCriteria,
                             LAMBDA c : FlippedFrom(oldCriteria, c))
        d == dfLast.diff[1]
    IN /\ d.changedCriteria =
            [i \in DOMAIN flipped |->
               [text |-> flipped[i].text,
                oldCompleted |-> ~flipped[i].completed,
                newCompleted |-> flipped[i].completed]]
       /\ d.criteriaChanged <=> (d.changedCriteria # <<>>)

\* ---------------------------------------- DiscordStreamer: splitContent
\* the characters of a batch: the line feed and two others
NL == "\n"
Chars == {NL, "a", "b"}

\* content.split('\n')
RECURSIVE SplitLines(_)
SplitLines(str) ==
  IF \A i \in 1..Len(str) : str[i] # NL
  THEN <<str>>
  ELSE LET i == CHOOSE k \in 1..Len(str) :
                  str[k] = NL /\ \A j \in 1..(k - 1) : str[j] # NL
       IN <<SubSeq(str, 1, i - 1)>> \o SplitLines(SubSeq(str, i + 1, Len(str)))

\* the loop of lines 488-490 over a line longer than maxLength
RECURSIVE HardSplit(_, _)
HardSplit(line, maxLength) ==
  IF line = <<>> THEN <<>>
  ELSE IF Len(line) <= maxLength THEN <<line>>
  ELSE <<SubSeq(line, 1, maxLength)>>
         \o HardSplit(SubSeq(line, maxLength + 1, Len(line)), maxLength)

\* a loop that adds a line to the chunk without counting the line feed
RECURSIVE SplitLoop_forgetsNewline(_, _, _, _)
SplitLoop_forgetsNewline(lines, chunks, currentChunk, maxLength) ==
  IF lines = <<>>
  THEN IF currentChunk # <<>> THEN Append(chunks, currentChunk) ELSE chunks
  ELSE LET line == Head(lines)
           flushed == IF currentChunk # <<>> THEN Append(chunks, currentChunk) ELSE chunks
       IN IF Len(line) > maxLength
          THEN SplitLoop_forgetsNewline(Tail(lines), flushed \o HardSplit(line, maxLength),
                                        <<>>, maxLength)
          ELSE IF Len(currentChunk) + Len(line) > maxLength
          THEN SplitLoop_forgetsNewline(Tail(lines), flushed, line, maxLength)
          ELSE SplitLoop_forgetsNewline(Tail(lines), chunks,
                 (IF currentChunk # <<>> THEN Append(currentChunk, NL) ELSE <<>>) \o line,
                 maxLength)

\* the for loop of splitContent (476-500) and the push after it (502-504)
RECURSIVE SplitLoop(_, _, _, _)
SplitLoop(lines, chunks, currentChunk, maxLength) ==
  IF lines = <<>>
  THEN IF currentChunk # <<>> THEN Append(chunks, currentChunk) ELSE chunks
  ELSE LET line == Head(lines)
           flushed == IF currentChunk # <<>> THEN Append(chunks, currentChunk) ELSE chunks
           newLength == Len(currentChunk) + (IF currentChunk # <<>> THEN 1 ELSE 0)
                          + Len(line)
       IN IF Len(line) > maxLength
          THEN SplitLoop(Tail(lines), flushed \o HardSplit(line, maxLength), <<>>, maxLength)
          ELSE IF newLength > maxLength
          THEN SplitLoop(Tail(lines), flushed, line, maxLength)
          ELSE SplitLoop(Tail(lines), chunks,
                 (IF currentChunk # <<>> THEN Append(currentChunk, NL) ELSE <<>>) \o line,
                 maxLength)

\* maxLength of splitContent (468-470)
MaxLengthOf(useCodeBlocks) ==
  IF useCodeBlocks THEN MaxMessageLength - CodeBlockOverhead ELSE MaxMessageLength

\* splitContent (467-507)
splitContent(content, useCodeBlocks) ==
  SplitLoop(SplitLines(content), <<>>, <<>>, MaxLengthOf(useCodeBlocks))

SplitFrame ==
  UNCHANGED <<pmVars, sbVars, vmVars, vqVars, asVars, cmdVars, smVars, dsVars, botVars,
              dfVars>>

\* one call of splitContent; the function keeps no state, so one call is
\* made in a run
SplitCall(content, useCodeBlocks) ==
  /\ spLast.op = "none"
  /\ spLast' = [op |-> "split", content |-> content, useCodeBlocks |-> useCodeBlocks,
                chunks |-> splitContent(content, useCodeBlocks)]
  /\ SplitFrame

SplitNext ==
  /\ spLast.op = "none"
  /\ \E n \in 0..MaxContent, useCodeBlocks \in BOOLEAN :
       \E content \in [1..n -> Chars] : SplitCall(content, useCodeBlocks)

SpecSplit == Init /\ [][SplitNext]_vars

\* the strings of a list one after the other
RECURSIVE Concat(_)
Concat(list) == IF list = <<>> THEN <<>> ELSE Head(list) \o Concat(Tail(list))

\* the non-empty lines of the pieces, in order
LinesOfPieces(pieces) ==
  SelectSeq(Concat([i \in DOMAIN pieces |-> SplitLines(pieces[i])]),
            LAMBDA l : l # <<>>)

\* the non-empty lines of the batch, each longer one cut into parts of the
\* limit
LinesCut(content, maxLength) ==
  LET lines == SplitLines(content)
  IN Concat([i \in DOMAIN lines |-> HardSplit(lines[i], maxLength)])

\* C33: no piece of splitContent is longer than the limit (the message limit
\* less the framing when code blocks are used); the lines of the pieces are
\* the lines of the batch, only a line longer than the limit being cut, into
\* parts of the limit; so the pieces hold every character of the batch other
\* than line feeds, in order.
C33_PiecesWithinLimit ==
  spLast.op = "split" =>
    LET max == MaxLengthOf(spLast.useCodeBlocks)
        pieces == spLast.chunks
    IN /\ \A i \in DOMAIN pieces : Len(pieces[i]) \in 1..max
       /\ LinesOfPieces(pieces) = LinesCut(spLast.content, max)
       /\ SelectSeq(Concat(pieces), LAMBDA ch : ch # NL)
            = SelectSeq(spLast.content, LAMBDA ch : ch # NL)

\* a batch with a line longer than the limit after a short line: the short
\* line is a piece and the long one was cut
C33_Witness ==
  /\ spLast.op = "split"
  /\ spLast.useCodeBlocks
  /\ spLast.content = <<"a", NL, "b", "a", "b">>
  /\ Len(spLast.chunks) = 3
  /\ spLast.chunks[1] = <<"a">>

\* ------------------------------------ VaultMonitor: the life of one instance

\* the task documents somebody writes to ACTIVE.md while the monitor lives
LifeDocs == {d \in ASDocs : /\ d.criteria = <<>>
                             /\ d.retry = <<>>
                             /\ d.status \in {"IN_PROGRESS", "PENDING_REVIEW"}}

LifeWrite ==
  /\ \E d \in LifeDocs : WriteActive(d)
  /\ UNCHANGED <<pmVars, sbVars, extVars>>

LifeNext ==
  \/ LifeWrite
  \/ VMStart
  \/ VMStop
  \/ VMActiveChange
  \/ ASApprove

SpecLife == Init /\ [][LifeNext]_vars

\* the handler whose record is r emitted taskActivated
Activated(r) == \E i \in 1..Len(r.emitted) : r.emitted[i].name = "taskActivated"

\* the task the monitor stores once it has read the placeholder of approve
PlaceholderTask == parseTask(NoneDoc)

\* C37: the task the monitor stores, once there is one, is never dropped
\* again, so a handler emits taskActivated only when no task was stored and
\* stores one as it does (at most one taskActivated for the instance, across
\* stop and start); a task document that a change handler reads after the
\* placeholder of approve was stored is reported as taskUpdated.
C37_ActivatedAtMostOnce ==
  [][/\ lastActiveTask # <<>> => lastActiveTask' # <<>>
     /\ Activated(vmLast') => vmLast'.prev = <<>> /\ lastActiveTask' # <<>>
     /\ ( /\ vmLast'.kind = "change"
          /\ vmLast'.readOk
          /\ vmLast'.prev = <<PlaceholderTask>>
          /\ vmLast'.read # <<NoneDoc>> )
        => /\ Len(vmLast'.emitted) = 1
           /\ vmLast'.emitted[1].name = "taskUpdated"]_vars

\* approve has reset ACTIVE.md, the monitor has stored the placeholder, and
\* the change handler has then read a task written afterwards
C37_Witness ==
  /\ asLast.op = "approve"
  /\ asLast.success
  /\ vmLast.kind = "change"
  /\ vmLast.readOk
  /\ vmLast.prev = <<PlaceholderTask>>
  /\ vmLast.read # <<NoneDoc>>
  /\ vmLast.emitted[1].name = "taskUpdated"

\* ------------------------------- ApprovalService: approve, write by write

\* approve (index.ts 63-116) up to `await this.fileMover.moveToCompleted`:
\* the checks, the edits of the content and the write of the completed copy.
\* moveOk = FALSE: writeFileSync throws inside moveToCompleted, which returns
\* a failure (file-mover.ts 41-46), and approve returns (107-112).  One
\* approve is in flight at a time.
approveMoves_clearsFirst(task, approver, moveOk) ==
  /\ asLast.op # "moveToCompleted"
  /\ asNow <= MaxASCalls
  /\ asNow' = asNow + 1
  /\ activeFile' = <<NoneDoc>>
  /\ asLast' = ASResult(IF moveOk THEN "moveToCompleted" ELSE "approve", task, <<>>,
                        FALSE, <<"Failed to move task to completed">>, <<>>,
                        TRUE, FALSE)
  /\ UNCHANGED <<completedDir, asRun>>

approveMoves(task, approver, moveOk) ==
  LET currentStatus == parseStatus(task.metadata.status)
  IN /\ asLast.op # "moveToCompleted"
     /\ IF currentStatus = <<>>
        THEN ASFails("approve", task, <<>>,
                     <<"Unknown task status", task.metadata.status>>)
        ELSE IF /\ currentStatus[1] # "PENDING_REVIEW"
                /\ ~allCriteriaCompleted(task)
                /\ ~canTransition(currentStatus[1], "COMPLETED")
        THEN ASFails("approve", task, <<>>,
                     <<"Cannot approve task in status", currentStatus[1]>>)
        ELSE /\ asNow <= MaxASCalls
             /\ asNow' = asNow + 1
             /\ UNCHANGED <<activeFile, asRun>>
             /\ IF ~moveOk
                THEN /\ asLast' = ASResult("approve", task, <<>>, FALSE,
                                           <<"Failed to move task to completed">>,
                                           <<>>, FALSE, FALSE)
                     /\ UNCHANGED completedDir
                ELSE /\ completedDir' =
                          Append(completedDir,
                                 moveToCompleted(task.id,
                                   addApprovalMetadata(
                                     appendToExecutionLog(
                                       updateTaskStatus(task.rawContent, "COMPLETED"),
                                       ApprovedLines[asNow]),
                                     approver, asNow)))
                     /\ asLast' = ASResult("moveToCompleted", task, <<>>, FALSE,
                                           <<>>, <<>>, FALSE, TRUE)

\* approve after the await (114-122): clearActiveFile (file-mover.ts 68-74)
\* and the success result.  clearOk = FALSE: writeFileSync throws and the
\* promise of approve is rejected.
approveClears(clearOk) ==
  /\ asLast.op = "moveToCompleted"
  /\ LET task == asLast.task[1]
     IN IF clearOk
        THEN /\ activeFile' = <<NoneDoc>>
             /\ asRun' = [asRun EXCEPT !.base = 0, !.n = 0, !.fresh = FALSE]
             /\ asLast' = ASResult("approve", task, <<>>, TRUE,
                                   <<"approved", task.id>>, <<>>, TRUE, TRUE)
        ELSE /\ asLast' = ASResult("approve", task, <<>>, FALSE, <<"thrown">>,
                                   <<>>, FALSE, TRUE)
             /\ UNCHANGED <<activeFile, asRun>>
  /\ UNCHANGED <<completedDir, asNow>>

\* handleApprove (commands.ts 180-205) calls approve with the task the
\* monitor stored
MoveApprove ==
  /\ lastActiveTask # <<>>
  /\ \E moveOk \in BOOLEAN : approveMoves(lastActiveTask[1], "user#1234", moveOk)
  /\ UNCHANGED <<pmVars, sbVars, watching, lastActiveTask, vmLast, vqVars,
                 cmdVars, smVars, dsVars, botVars, dfVars, spVars>>

MoveClear ==
  /\ \E clearOk \in BOOLEAN : approveClears(clearOk)
  /\ UNCHANGED <<pmVars, sbVars, watching, lastActiveTask, vmLast, vqVars,
                 cmdVars, smVars, dsVars, botVars, dfVars, spVars>>

MoveNext ==
  \/ LifeWrite
  \/ VMStart
  \/ VMActiveChange
  \/ MoveApprove
  \/ MoveClear

SpecMove == Init /\ [][MoveNext]_vars

\* the completed directory holds the copy approve makes of task t
CopyOf(t, dir) ==
  \E i \in 1..Len(dir) :
    /\ dir[i].path[2] = t.id
    /\ dir[i].content.doc.status = "COMPLETED"

\* C38: approve resets ACTIVE.md to the placeholder only in a step after the
\* one that wrote the completed copy, so a step that puts the placeholder in
\* the file finds the copy of the approved task in the completed directory
\* already; an approve whose completed copy could not be written returns a
\* failure and writes nothing to either place.
C38_ResetAfterCompletedCopy ==
  [][/\ (activeFile' = <<NoneDoc>> /\ activeFile # <<NoneDoc>>) =>
          /\ asLast.op = "moveToCompleted"
          /\ CopyOf(asLast.task[1], completedDir)
          /\ UNCHANGED completedDir
     /\ (asNow' # asNow /\ asLast'.op = "approve") =>
          /\ ~asLast'.success
          /\ ~asLast'.wroteActive
          /\ UNCHANGED <<activeFile, completedDir>>]_vars

\* an approve has written the completed copy and then reset ACTIVE.md, and
\* a later approve has failed to write its copy
C38_Witness ==
  /\ asLast.op = "approve"
  /\ ~asLast.success
  /\ ~asLast.wroteCompleted
  /\ activeFile # <<>>
  /\ activeFile # <<NoneDoc>>
  /\ \E i \in 1..Len(completedDir) : completedDir[i].path[2] = asLast.task[1].id

\* ------------------------------------- ApprovalService: reject and the table

\* C39: a reject that succeeds (and so writes the document back with status
\* IN_PROGRESS) was called for a task whose status the transition table lets
\* move to IN_PROGRESS (EXECUTING, PENDING_REVIEW, BLOCKED); a reject called
\* for a COMPLETED task does not write ACTIVE.md.
C39_RejectFollowsTable ==
  (asLast.op = "reject" /\ CalledStatus # <<>>) =>
    /\ asLast.success =>
         /\ canTransition(CalledStatus[1], "IN_PROGRESS")
         /\ CalledStatus[1] \in {"EXECUTING", "PENDING_REVIEW", "BLOCKED"}
    /\ CalledStatus[1] = "COMPLETED" => ~asLast.wroteActive

\* ------------------------------------------- the status transition graph

RECURSIVE Closure(_)
\* the statuses of S and all that moves of the table lead to from them
Closure(S) ==
  LET N == S \cup UNION {SetOf(getValidNextStates(s)) : s \in S}
  IN IF N = S THEN S ELSE Closure(N)

\* the statuses a task reaches from s by one or more moves of the table
ReachableFrom(s) == Closure(SetOf(getValidNextStates(s)))

\* C40: for the status s a getValidNextStates call was made with: s is
\* reachable from IN_PROGRESS by moves of the table; COMPLETED is reachable
\* from s unless s is COMPLETED; the call returns no successor exactly when
\* s is COMPLETED, from which nothing is reachable.
C40_NoStuckStatus ==
  smLast.op = "getValidNextStates" =>
    LET s == smLast.from[1]
    IN /\ s \in ReachableFrom("IN_PROGRESS")
       /\ s # "COMPLETED" => "COMPLETED" \in ReachableFrom(s)
       /\ smLast.result[1] = <<>> <=> s = "COMPLETED"
       /\ ReachableFrom("COMPLETED") = {}
       /\ ReachableFrom("IN_PROGRESS") = SetOf(TaskStatus)

\* getValidNextStates was asked for BLOCKED and named its one way out
C40_Witness ==
  /\ smLast.op = "getValidNextStates"
  /\ smLast.from = <<"BLOCKED">>
  /\ smLast.result = <<<<"IN_PROGRESS">>>>
  /\ "COMPLETED" \in ReachableFrom("BLOCKED")

====
